---- MODULE Spec2Model ----
(***************************************************************************)
(* A model of the PRD-to-ticket plan pipeline (app/api/plan route, the     *)
(* lib/schema, lib/linear and lib/markdown modules), of the                *)
(* text-extraction endpoint (app/api/extract route) and of the page        *)
(* (PrdPage) that calls both.                                              *)
(*                                                                         *)
(* A JavaScript string is a sequence of one-character strings, so that     *)
(* trimming, encoding and joining are computed character by character;     *)
(* the texts of the extraction endpoint, which can exceed 120,000          *)
(* characters, are sequences of runs of one character.                     *)
(* A JavaScript value that may or may not be an array (an epic's tickets   *)
(* after the repair pass) is a record [kind, items].                       *)
(*                                                                         *)
(* Each part has its own variables and its own specification: Spec (one    *)
(* request to the plan endpoint), SpecRepair, SpecDecode, SpecLink,        *)
(* SpecClean (one function taken alone), SpecExtract (one request to the   *)
(* extraction endpoint) and SpecPage (the page and its user).              *)
(***************************************************************************)
EXTENDS Integers, Sequences, FiniteSets, TLC

VARIABLES
    \* --- one request to the plan endpoint (POST) ---
    pc,          \* where the handler is suspended: idle, json, call1, call2, done
    body,        \* the request body being handled
    oracleLog,   \* the interaction with the generation oracle, in order
    response,    \* the response of the handler, NoResponse until it answers
    \* --- the repair pass taken alone ---
    rStep,       \* input, repaired, repairedTwice
    rIn,         \* the decoded PlanCore handed to normalizeIds
    rOut,        \* the outcome of normalizeIds(rIn)
    rOut2,       \* the outcome of normalizeIds applied to the value of rOut
    \* --- the lenient decoding taken alone ---
    dStep,       \* input, decoded
    dIn,         \* the candidate object the oracle produced
    dOut,        \* the outcome of PlanCoreSchema.parse(dIn)
    \* --- the building of one issue-creation URL ---
    lStep,       \* input, built
    lIn,         \* the title and the description handed to buildLinearNewUrl
    lOut,        \* the outcome of buildLinearNewUrl
    \* --- the text normalizer taken alone ---
    cStep,       \* input, cleaned, cleanedTwice
    cIn,         \* the raw text
    cOut,        \* cleanPrdText(cIn)
    cOut2,       \* cleanPrdText(cOut)
    \* --- one request to the text-extraction endpoint (POST) ---
    xPc,         \* where the handler is suspended
    xFile,       \* the "file" entry of the uploaded form
    xLog,        \* the extraction steps performed on the file, in order
    xText,       \* the text extracted so far
    xResponse,   \* the response of the handler, NoResponse until it answers
    \* --- the page (PrdPage) ---
    uPrd,          \* prd: the text of the PRD field
    uPlan,         \* plan: the plan on display, or null
    uError,        \* error: the message of the failed generation, or null
    uLoading,      \* loading
    uExtracting,   \* extracting
    uPlanFetches,  \* the requests to /api/plan that have not settled
    uExtractions,  \* the file reads and requests to /api/extract that have not settled
    uPlanFrom,     \* the request whose response is the plan on display
    uCopied        \* the ticket last copied and the text written to the clipboard

requestVars == <<pc, body, oracleLog, response>>
repairVars == <<rStep, rIn, rOut, rOut2>>
decodeVars == <<dStep, dIn, dOut>>
linkVars == <<lStep, lIn, lOut>>
cleanVars == <<cStep, cIn, cOut, cOut2>>
extractVars == <<xPc, xFile, xLog, xText, xResponse>>
pageVars ==
    <<uPrd, uPlan, uError, uLoading, uExtracting, uPlanFetches, uExtractions,
      uPlanFrom, uCopied>>

vars == <<requestVars, repairVars, decodeVars, linkVars, cleanVars, extractVars, pageVars>>

\* the variables a step of one part leaves alone: those of the other parts
exceptRequest == <<repairVars, decodeVars, linkVars, cleanVars, extractVars, pageVars>>
exceptRepair == <<requestVars, decodeVars, linkVars, cleanVars, extractVars, pageVars>>
exceptDecode == <<requestVars, repairVars, linkVars, cleanVars, extractVars, pageVars>>
exceptLink == <<requestVars, repairVars, decodeVars, cleanVars, extractVars, pageVars>>
exceptClean == <<requestVars, repairVars, decodeVars, linkVars, extractVars, pageVars>>
exceptExtract == <<requestVars, repairVars, decodeVars, linkVars, cleanVars, pageVars>>
exceptPage == <<requestVars, repairVars, decodeVars, linkVars, cleanVars, extractVars>>

(***************************************************************************)
(* Bounds of the model.                                                    *)
(***************************************************************************)
\* epics plus tickets in one plan handed to the repair pass
MaxItems == 3
\* epics plus tickets in one output of the oracle
MaxOracleItems == 2

(***************************************************************************)
(* Strings.                                                                *)
(***************************************************************************)
\* code units outside ASCII, named by their code point
NBSP == "00A0"       \* no-break space
ZWSP == "200B"       \* zero width space
BOM == "FEFF"        \* zero width no-break space
Bullet == "2022"     \* the bullet glyph

\* the characters String.prototype.trim removes and \s matches (those the
\* model uses)
WhiteSpace == {" ", "\t", "\n", "\r", NBSP, BOM}

RECURSIVE trimStart(_)
trimStart(s) ==
    IF s # <<>> /\ Head(s) \in WhiteSpace THEN trimStart(Tail(s)) ELSE s

RECURSIVE trimEnd(_)
trimEnd(s) ==
    IF s # <<>> /\ s[Len(s)] \in WhiteSpace
    THEN trimEnd(SubSeq(s, 1, Len(s) - 1))
    ELSE s

\* String.prototype.trim
trim(s) == trimEnd(trimStart(s))

Digits == <<"0", "1", "2", "3", "4", "5", "6", "7", "8", "9">>

\* the decimal rendering of a natural number inside a template literal
RECURSIVE NumberToString(_)
NumberToString(n) ==
    IF n < 10 THEN <<Digits[n + 1]>>
    ELSE NumberToString(n \div 10) \o <<Digits[(n % 10) + 1]>>

\* the concatenation of a sequence of strings
RECURSIVE Flatten(_)
Flatten(ss) ==
    IF Len(ss) = 0 THEN <<>>
    ELSE IF Len(ss) = 1 THEN ss[1]
    ELSE LET m == Len(ss) \div 2
         IN  Flatten(SubSeq(ss, 1, m)) \o Flatten(SubSeq(ss, m + 1, Len(ss)))

\* Array.prototype.join
join(parts, sep) ==
    Flatten([i \in 1..(2 * Len(parts) - 1) |->
                IF i % 2 = 1 THEN parts[(i + 1) \div 2] ELSE sep])

(***************************************************************************)
(* JavaScript values.                                                      *)
(***************************************************************************)
JsArray(items) == [kind |-> "array", items |-> items]
\* a member inherited from Object.prototype: a function or an object, never
\* an array, neither null nor undefined
JsInherited == [kind |-> "inherited", items |-> <<>>]

\* property names every object literal inherits from Object.prototype
ObjectPrototypeKeys ==
    { <<"v", "a", "l", "u", "e", "O", "f">>,
      <<"t", "o", "S", "t", "r", "i", "n", "g">>,
      <<"c", "o", "n", "s", "t", "r", "u", "c", "t", "o", "r">>,
      <<"_", "_", "p", "r", "o", "t", "o", "_", "_">> }

\* no call of the operation has ended yet
NoOutcome == [ok |-> FALSE, value |-> <<>>, message |-> "not run"]
Returned(v) == [ok |-> TRUE, value |-> v, message |-> <<>>]
Thrown(m) == [ok |-> FALSE, value |-> <<>>, message |-> m]

(***************************************************************************)
(* The repair pass: normalizeIds.                                          *)
(***************************************************************************)
\* mutant: the positional id is made from idx, not from idx + 1
idOrPositional_ZeroBased(id, prefix, i) ==
    IF trim(id) # <<>> THEN trim(id) ELSE prefix \o NumberToString(i - 1)

\* e.epicId?.trim() ? e.epicId.trim() : `E${idx + 1}`   (i is idx + 1)
idOrPositional(id, prefix, i) ==
    IF trim(id) # <<>> THEN trim(id) ELSE prefix \o NumberToString(i)

\* const epics = (plan.epics ?? []).map((e, idx) => ({...e, epicId: ...}))
epicsWithIds(plan) ==
    [i \in 1..Len(plan.epics) |->
        [plan.epics[i] EXCEPT !.epicId = idOrPositional(@, <<"E">>, i)]]

\* new Set(epics.map((e) => e.epicId))
epicIdSet(epics) == {epics[i].epicId : i \in 1..Len(epics)}

\* epics[0]?.epicId || "E1"
firstEpicIdOrE1(epics) ==
    IF Len(epics) > 0 /\ epics[1].epicId # <<>>
    THEN epics[1].epicId
    ELSE <<"E", "1">>

\* mutant: an epicId that names no epic is kept
repairTicket_KeepingUnknown(t, i, epics) ==
    [t EXCEPT !.ticketId = idOrPositional(t.ticketId, <<"T">>, i),
              !.epicId = IF trim(t.epicId) # <<>> THEN trim(t.epicId)
                         ELSE firstEpicIdOrE1(epics)]

\* the map callback over plan.tickets   (i is idx + 1)
repairTicket(t, i, epics) ==
    LET ticketId == idOrPositional(t.ticketId, <<"T">>, i)
        epicId == IF trim(t.epicId) # <<>> THEN trim(t.epicId)
                  ELSE firstEpicIdOrE1(epics)
    IN  [t EXCEPT !.ticketId = ticketId,
                  !.epicId = IF epicId \in epicIdSet(epics) THEN epicId
                             ELSE firstEpicIdOrE1(epics)]

\* mutant: a ticket that names no epic is left out
ticketsWithIds_DroppingOrphans(plan, epics) ==
    LET kept == SelectSeq(plan.tickets, LAMBDA t : trim(t.epicId) \in epicIdSet(epics))
    IN  [i \in 1..Len(kept) |-> repairTicket(kept[i], i, epics)]

ticketsWithIds(plan, epics) ==
    [i \in 1..Len(plan.tickets) |-> repairTicket(plan.tickets[i], i, epics)]

\* The loop filling ticketsByEpic, an object literal {}: obj maps the own
\* keys to their arrays. ticketsByEpic[k] ||= [] leaves an inherited member
\* (truthy) in place, and calling .push on it throws a TypeError.
RECURSIVE fillTicketsByEpic(_, _, _)
fillTicketsByEpic(tickets, i, obj) ==
    IF i > Len(tickets) THEN Returned(obj)
    ELSE LET k == tickets[i].epicId
             id == tickets[i].ticketId
         IN  IF k \in DOMAIN obj
             THEN fillTicketsByEpic(tickets, i + 1,
                                    [obj EXCEPT ![k] = Append(@, id)])
             ELSE IF k \in ObjectPrototypeKeys
             THEN Thrown("ticketsByEpic[t.epicId].push is not a function")
             ELSE fillTicketsByEpic(tickets, i + 1, obj @@ (k :> <<id>>))

ticketsByEpic(tickets) == fillTicketsByEpic(tickets, 1, << >>)

\* mutant: the list the oracle supplied is kept and the derived ids appended
ticketsOfEpic_KeepingRaw(e, obj) ==
    IF e.epicId \in DOMAIN obj THEN JsArray(e.tickets.items \o obj[e.epicId])
    ELSE IF e.epicId \in ObjectPrototypeKeys THEN JsInherited
    ELSE JsArray(e.tickets.items)

\* ticketsByEpic[e.epicId] ?? []
ticketsOfEpic(e, obj) ==
    IF e.epicId \in DOMAIN obj THEN JsArray(obj[e.epicId])
    ELSE IF e.epicId \in ObjectPrototypeKeys THEN JsInherited
    ELSE JsArray(<<>>)

\* epics.map((e) => ({...e, tickets: ticketsByEpic[e.epicId] ?? []}))
epicsWithTickets(epics, obj) ==
    [i \in 1..Len(epics) |-> [epics[i] EXCEPT !.tickets = ticketsOfEpic(epics[i], obj)]]

normalizeIds(plan) ==
    LET epics == epicsWithIds(plan)
        tickets == ticketsWithIds(plan, epics)
        byEpic == ticketsByEpic(tickets)
    IN  IF ~byEpic.ok THEN Thrown(byEpic.message)
        ELSE Returned([plan EXCEPT !.epics = epicsWithTickets(epics, byEpic.value),
                                   !.tickets = tickets])

(***************************************************************************)
(* lib/linear: issue-creation links.                                       *)
(***************************************************************************)
\* the two UTF-16 code units of one astral character (U+1F600); either of
\* them standing alone is a lone surrogate
HighSurrogate == "D83D"
LowSurrogate == "DE00"

\* uriUnreserved of encodeURIComponent: letters, digits and - _ . ! ~ * ' ( )
UriUnreserved ==
    { "A", "B", "C", "D", "E", "F", "G", "H", "I", "J", "K", "L", "M",
      "N", "O", "P", "Q", "R", "S", "T", "U", "V", "W", "X", "Y", "Z",
      "a", "b", "c", "d", "e", "f", "g", "h", "i", "j", "k", "l", "m",
      "n", "o", "p", "q", "r", "s", "t", "u", "v", "w", "x", "y", "z",
      "0", "1", "2", "3", "4", "5", "6", "7", "8", "9",
      "-", "_", ".", "!", "~", "*", "'", "(", ")" }

\* the percent-encoded UTF-8 bytes of a character outside uriUnreserved
PercentEncoded(c) ==
    CASE c = " "  -> <<"%", "2", "0">>
      [] c = "\n" -> <<"%", "0", "A">>
      [] c = "\t" -> <<"%", "0", "9">>
      [] c = "\r" -> <<"%", "0", "D">>
      [] c = "#"  -> <<"%", "2", "3">>
      [] c = "%"  -> <<"%", "2", "5">>
      [] c = "&"  -> <<"%", "2", "6">>
      [] c = "+"  -> <<"%", "2", "B">>
      [] c = ","  -> <<"%", "2", "C">>
      [] c = "/"  -> <<"%", "2", "F">>
      [] c = ":"  -> <<"%", "3", "A">>
      [] c = "="  -> <<"%", "3", "D">>
      [] c = "?"  -> <<"%", "3", "F">>
      [] c = "|"  -> <<"%", "7", "C">>

\* whether every surrogate code unit of s is half of a pair
WellFormed(s) ==
    \A i \in 1..Len(s) :
        /\ s[i] = HighSurrogate => i < Len(s) /\ s[i + 1] = LowSurrogate
        /\ s[i] = LowSurrogate => i > 1 /\ s[i - 1] = HighSurrogate

\* what encodeURIComponent writes for the code unit at position i of a
\* well-formed string: a surrogate pair is one character of four bytes
encodedAt(s, i) ==
    IF s[i] = HighSurrogate THEN <<"%", "F", "0", "%", "9", "F", "%", "9", "8", "%", "8", "0">>
    ELSE IF s[i] = LowSurrogate THEN <<>>
    ELSE IF s[i] \in UriUnreserved THEN <<s[i]>>
    ELSE PercentEncoded(s[i])

\* encodeURIComponent on a well-formed string (it throws a URIError on a
\* lone surrogate)
encodeURIComponent(s) == Flatten([i \in 1..Len(s) |-> encodedAt(s, i)])

\* whether a match of /%20/ starts at position i
percent20At(s, i) ==
    i >= 1 /\ i + 2 <= Len(s) /\ s[i] = "%" /\ s[i + 1] = "2" /\ s[i + 2] = "0"

\* String.prototype.replace(/%20/g, "+"): two matches never overlap
replacePercent20(s) ==
    Flatten([i \in 1..Len(s) |->
                IF percent20At(s, i) THEN <<"+">>
                ELSE IF percent20At(s, i - 1) \/ percent20At(s, i - 2) THEN <<>>
                ELSE <<s[i]>>])

\* mutant: "+" is left as it is, as encodeURI would
encodeForQuery_PlusUnreserved(value) ==
    replacePercent20(Flatten([i \in 1..Len(value) |->
        IF value[i] = "+" THEN <<"+">> ELSE encodedAt(value, i)]))

encodeForQuery(value) == replacePercent20(encodeURIComponent(value))

buildLinearNewUrl(title, description) ==
    <<"h", "t", "t", "p", "s", ":", "/", "/", "l", "i", "n", "e", "a", "r", ".", "n", "e", "w", "?", "t", "i", "t", "l", "e", "=">> \o encodeForQuery(title)
        \o <<"&", "d", "e", "s", "c", "r", "i", "p", "t", "i", "o", "n", "=">> \o encodeForQuery(description)

\* for (const x of xs) lines.push(`- ${x}`)
bulleted(xs) == [i \in 1..Len(xs) |-> <<"-", " ">> \o xs[i]]

\* `- ${ev.name} (${ev.properties.join(", ")})`
analyticsLines(events) ==
    [i \in 1..Len(events) |->
        <<"-", " ">> \o events[i].name \o <<" ", "(">> \o join(events[i].properties, <<",", " ">>) \o <<")">>]

\* mutant: the "Out of scope:" heading is written for every ticket
ticketMarkdownDescription_OutOfScopeAlways(t) ==
    join(<< <<"T", "y", "p", "e", ":", " ">> \o t.type,
            <<"P", "r", "i", "o", "r", "i", "t", "y", ":", " ">> \o t.priority,
            <<"E", "s", "t", "i", "m", "a", "t", "e", ":", " ">> \o t.estimate,
            <<>>,
            <<"U", "s", "e", "r", " ", "s", "t", "o", "r", "y", ":", " ">> \o t.userStory,
            <<>>,
            t.description,
            <<>>,
            <<"A", "c", "c", "e", "p", "t", "a", "n", "c", "e", " ", "c", "r", "i", "t", "e", "r", "i", "a", ":">> >>
         \o bulleted(t.acceptanceCriteria)
         \o << <<>>, <<"O", "u", "t", " ", "o", "f", " ", "s", "c", "o", "p", "e", ":">> >> \o bulleted(t.outOfScope)
         \o (IF Len(t.dependencies) # 0
             THEN << <<>>, <<"D", "e", "p", "e", "n", "d", "e", "n", "c", "i", "e", "s", ":">> >> \o bulleted(t.dependencies)
             ELSE <<>>)
         \o << <<>>, <<"Q", "A", " ", "t", "e", "s", "t", " ", "c", "a", "s", "e", "s", ":">> >>
         \o bulleted(t.qa.testCases)
         \o << <<>>, <<"A", "n", "a", "l", "y", "t", "i", "c", "s", ":">> >>
         \o analyticsLines(t.analytics.events),
         <<"\n">>)

ticketMarkdownDescription(t) ==
    join(<< <<"T", "y", "p", "e", ":", " ">> \o t.type,
            <<"P", "r", "i", "o", "r", "i", "t", "y", ":", " ">> \o t.priority,
            <<"E", "s", "t", "i", "m", "a", "t", "e", ":", " ">> \o t.estimate,
            <<>>,
            <<"U", "s", "e", "r", " ", "s", "t", "o", "r", "y", ":", " ">> \o t.userStory,
            <<>>,
            t.description,
            <<>>,
            <<"A", "c", "c", "e", "p", "t", "a", "n", "c", "e", " ", "c", "r", "i", "t", "e", "r", "i", "a", ":">> >>
         \o bulleted(t.acceptanceCriteria)
         \o (IF Len(t.outOfScope) # 0
             THEN << <<>>, <<"O", "u", "t", " ", "o", "f", " ", "s", "c", "o", "p", "e", ":">> >> \o bulleted(t.outOfScope)
             ELSE <<>>)
         \o (IF Len(t.dependencies) # 0
             THEN << <<>>, <<"D", "e", "p", "e", "n", "d", "e", "n", "c", "i", "e", "s", ":">> >> \o bulleted(t.dependencies)
             ELSE <<>>)
         \o << <<>>, <<"Q", "A", " ", "t", "e", "s", "t", " ", "c", "a", "s", "e", "s", ":">> >>
         \o bulleted(t.qa.testCases)
         \o << <<>>, <<"A", "n", "a", "l", "y", "t", "i", "c", "s", ":">> >>
         \o analyticsLines(t.analytics.events),
         <<"\n">>)

\* one ticket's entry of buildLinearLinks
linearLink(t) ==
    [ticketId |-> t.ticketId,
     linearNewUrl |-> buildLinearNewUrl(t.title, ticketMarkdownDescription(t))]

\* mutant: every entry carries the URL of the first ticket
buildLinearLinks_FirstUrl(tickets) ==
    Returned([i \in 1..Len(tickets) |->
                 [ticketId |-> tickets[i].ticketId,
                  linearNewUrl |-> linearLink(tickets[1]).linearNewUrl]])

\* tickets.map(...); the URIError of encodeURIComponent escapes the map
buildLinearLinks(tickets) ==
    IF \E i \in 1..Len(tickets) :
          ~WellFormed(tickets[i].title) \/ ~WellFormed(ticketMarkdownDescription(tickets[i]))
    THEN Thrown("URI malformed")
    ELSE Returned([i \in 1..Len(tickets) |-> linearLink(tickets[i])])

(***************************************************************************)
(* lib/markdown: the Markdown export.                                      *)
(***************************************************************************)
\* `- ${ev.name}` followed by one `  - ${p}` per property
eventLines(ev) ==
    << <<"-", " ">> \o ev.name >> \o [i \in 1..Len(ev.properties) |-> <<" ", " ", "-", " ">> \o ev.properties[i]]

ticketToMarkdown(t) ==
    join(<< <<"#", "#", "#", " ">> \o t.ticketId \o <<" ", "-", " ">> \o t.title,
            <<"T", "y", "p", "e", ":", " ">> \o t.type \o <<" ", "|", " ", "P", "r", "i", "o", "r", "i", "t", "y", ":", " ">> \o t.priority
                \o <<" ", "|", " ", "E", "s", "t", "i", "m", "a", "t", "e", ":", " ">> \o t.estimate,
            <<>>,
            <<"U", "s", "e", "r", " ", "s", "t", "o", "r", "y", ":", " ">> \o t.userStory,
            <<>>,
            t.description,
            <<>>,
            <<"A", "c", "c", "e", "p", "t", "a", "n", "c", "e", " ", "c", "r", "i", "t", "e", "r", "i", "a", ":">> >>
         \o bulleted(t.acceptanceCriteria)
         \o (IF Len(t.outOfScope) # 0
             THEN << <<>>, <<"O", "u", "t", " ", "o", "f", " ", "s", "c", "o", "p", "e", ":">> >> \o bulleted(t.outOfScope)
             ELSE <<>>)
         \o (IF Len(t.dependencies) # 0
             THEN << <<>>, <<"D", "e", "p", "e", "n", "d", "e", "n", "c", "i", "e", "s", ":">> >> \o bulleted(t.dependencies)
             ELSE <<>>)
         \o << <<>>, <<"Q", "A", " ", "t", "e", "s", "t", " ", "c", "a", "s", "e", "s", ":">> >>
         \o bulleted(t.qa.testCases)
         \o << <<>>, <<"A", "n", "a", "l", "y", "t", "i", "c", "s", " ", "e", "v", "e", "n", "t", "s", ":">> >>
         \o Flatten([i \in 1..Len(t.analytics.events) |-> eventLines(t.analytics.events[i])]),
         <<"\n">>)

\* the lines of one epic; e.tickets is an array here
epicLines(e) ==
    << <<"#", "#", "#", " ">> \o e.epicId \o <<" ", "-", " ">> \o e.title,
       <<"O", "u", "t", "c", "o", "m", "e", ":", " ">> \o e.outcome,
       <<"T", "i", "c", "k", "e", "t", "s", ":">> >>
    \o bulleted(e.tickets.items)
    \o << <<"E", "d", "g", "e", " ", "c", "a", "s", "e", "s", ":">> >>
    \o bulleted(e.edgeCases)
    \o << <<>> >>

\* the lines of one ticket block
ticketBlock(t) == << ticketToMarkdown(t), <<>>, <<"-", "-", "-">>, <<>> >>

\* for (const tid of e.tickets) throws a TypeError when e.tickets is not
\* iterable
planToMarkdown(plan) ==
    IF \E i \in 1..Len(plan.epics) : plan.epics[i].tickets.kind # "array"
    THEN Thrown("e.tickets is not iterable")
    ELSE Returned(join(
         << <<"#", " ">> \o plan.meta.productName \o <<" ", "-", " ", "T", "i", "c", "k", "e", "t", " ", "P", "a", "c", "k">>,
            <<>>,
            <<"P", "l", "a", "t", "f", "o", "r", "m", ":", " ">> \o plan.meta.platform \o <<" ", "|", " ", "C", "o", "n", "f", "i", "d", "e", "n", "c", "e", ":", " ">>
                \o NumberToString(plan.meta.confidence) \o <<"/", "1", "0", "0">>,
            <<>>,
            <<"#", "#", " ", "S", "u", "m", "m", "a", "r", "y">>,
            <<"P", "r", "o", "b", "l", "e", "m", ":", " ">> \o plan.summary.problem,
            <<>>,
            <<"T", "a", "r", "g", "e", "t", " ", "u", "s", "e", "r", "s", ":">> >>
         \o bulleted(plan.summary.targetUsers)
         \o << <<>>, <<"G", "o", "a", "l", "s", ":">> >>
         \o bulleted(plan.summary.goals)
         \o << <<>>, <<"N", "o", "n", "-", "g", "o", "a", "l", "s", ":">> >>
         \o bulleted(plan.summary.nonGoals)
         \o << <<>>, <<"S", "u", "c", "c", "e", "s", "s", " ", "m", "e", "t", "r", "i", "c", "s", ":">> >>
         \o bulleted(plan.summary.successMetrics)
         \o << <<>>, <<"#", "#", " ", "A", "s", "s", "u", "m", "p", "t", "i", "o", "n", "s">> >>
         \o bulleted(plan.meta.assumptions)
         \o << <<>> >>
         \o (IF Len(plan.meta.openQuestions) # 0
             THEN << <<"#", "#", " ", "O", "p", "e", "n", " ", "q", "u", "e", "s", "t", "i", "o", "n", "s">> >> \o bulleted(plan.meta.openQuestions) \o << <<>> >>
             ELSE <<>>)
         \o << <<"#", "#", " ", "E", "p", "i", "c", "s">> >>
         \o Flatten([i \in 1..Len(plan.epics) |-> epicLines(plan.epics[i])])
         \o << <<"#", "#", " ", "T", "i", "c", "k", "e", "t", "s">>, <<>> >>
         \o Flatten([i \in 1..Len(plan.tickets) |-> ticketBlock(plan.tickets[i])]),
         <<"\n">>))

(***************************************************************************)
(* lib/schema: the strict validation of the assembled plan.                *)
(***************************************************************************)
\* EpicSchema inside PlanSchema.parse: tickets is z.array(z.string()).catch([])
parseEpic(e) ==
    [e EXCEPT !.tickets = IF @.kind = "array" THEN @ ELSE JsArray(<<>>)]

\* PlanSchema.parse on a plan whose other fields have their types: every
\* field is checked for its type alone, so the plan is returned as it is
PlanSchemaParse(plan) ==
    Returned([plan EXCEPT !.epics = [i \in 1..Len(@) |-> parseEpic(@[i])]])

(***************************************************************************)
(* api/plan: the text normalizer cleanPrdText.                             *)
(***************************************************************************)
AsciiLetters ==
    { "A", "B", "C", "D", "E", "F", "G", "H", "I", "J", "K", "L", "M",
      "N", "O", "P", "Q", "R", "S", "T", "U", "V", "W", "X", "Y", "Z",
      "a", "b", "c", "d", "e", "f", "g", "h", "i", "j", "k", "l", "m",
      "n", "o", "p", "q", "r", "s", "t", "u", "v", "w", "x", "y", "z" }
AsciiDigits == {"0", "1", "2", "3", "4", "5", "6", "7", "8", "9"}

\* .replace(/\r\n/g, "\n").replace(/\r/g, "\n")
normalizeNewlines(s) ==
    Flatten([i \in 1..Len(s) |->
                IF s[i] # "\r" THEN <<s[i]>>
                ELSE IF i < Len(s) /\ s[i + 1] = "\n" THEN <<>>
                ELSE <<"\n">>])

\* .replace(/[\u200B-\u200D\uFEFF]/g, "") then .replace(/\u00A0/g, " ")
stripInvisible(s) ==
    Flatten([i \in 1..Len(s) |->
                IF s[i] \in {ZWSP, BOM} THEN <<>>
                ELSE IF s[i] = NBSP THEN <<" ">>
                ELSE <<s[i]>>])

\* .replace(/([A-Za-z])\-\n([A-Za-z])/g, "$1$2"): the matches are taken
\* from left to right and do not overlap
RECURSIVE joinHyphenated(_)
joinHyphenated(s) ==
    IF Len(s) < 4 THEN s
    ELSE IF s[1] \in AsciiLetters /\ s[2] = "-" /\ s[3] = "\n" /\ s[4] \in AsciiLetters
    THEN <<s[1], s[4]>> \o joinHyphenated(SubSeq(s, 5, Len(s)))
    ELSE <<s[1]>> \o joinHyphenated(Tail(s))

\* .replace(/[bullet glyphs]/g, "-")
normalizeBullets(s) == [i \in 1..Len(s) |-> IF s[i] = Bullet THEN "-" ELSE s[i]]

\* the first position from i on that holds no character of set cs
runEnd(s, i, cs) ==
    CHOOSE j \in i..(Len(s) + 1) :
        /\ j = Len(s) + 1 \/ s[j] \notin cs
        /\ \A k \in i..(j - 1) : s[k] \in cs

\* whether word, in either case, stands at position i
wordAt(s, i, lower, upper) ==
    /\ i + Len(lower) - 1 <= Len(s)
    /\ \A k \in 1..Len(lower) : s[i + k - 1] \in {lower[k], upper[k]}

\* ^ and $ under the m flag
lineStartAt(s, i) == i = 1 \/ s[i - 1] = "\n"
lineEndAt(s, i) == i = Len(s) + 1 \/ s[i] = "\n"

\* where a greedy \s* followed by $ ends when it starts at i: after the
\* whole run at the end of the input, else before the last newline of the
\* run; 0 when there is none
spacesThenLineEnd(s, i) ==
    LET w == runEnd(s, i, WhiteSpace)
        nls == {j \in i..(w - 1) : s[j] = "\n"}
    IN  IF w = Len(s) + 1 THEN w
        ELSE IF nls # {} THEN CHOOSE j \in nls : \A k \in nls : k <= j
        ELSE 0

\* where (of\s+\d+)?\s*$ ends when it starts at i, after the greedy \s* that
\* follows the page number; 0 when it does not match
ofPartEnd(s, i) ==
    LET w == runEnd(s, i, WhiteSpace)
        g == runEnd(s, w + 2, WhiteSpace)
        h == IF g <= Len(s) + 1 THEN runEnd(s, g, AsciiDigits) ELSE 0
    IN  IF wordAt(s, w, <<"o", "f">>, <<"O", "F">>) /\ g > w + 2 /\ h > g
           /\ spacesThenLineEnd(s, h) # 0
        THEN spacesThenLineEnd(s, h)
        ELSE spacesThenLineEnd(s, i)

\* where /^\s*Page\s+\d+\s*(of\s+\d+)?\s*$/im ends when it starts at i; 0
\* when it does not match there
pageMarkerEnd(s, i) ==
    LET a == runEnd(s, i, WhiteSpace)
        b == a + 4
        c == IF b <= Len(s) + 1 THEN runEnd(s, b, WhiteSpace) ELSE 0
        d == IF c # 0 THEN runEnd(s, c, AsciiDigits) ELSE 0
    IN  IF lineStartAt(s, i)
           /\ wordAt(s, a, <<"p", "a", "g", "e">>, <<"P", "A", "G", "E">>)
           /\ c > b /\ d > c
        THEN ofPartEnd(s, d)
        ELSE 0

\* .replace(/^\s*Page\s+\d+\s*(of\s+\d+)?\s*$/gim, ""), scanning from i
RECURSIVE dropPageMarkersFrom(_, _)
dropPageMarkersFrom(s, i) ==
    LET starts == {p \in i..Len(s) : pageMarkerEnd(s, p) # 0}
    IN  IF starts = {} THEN SubSeq(s, i, Len(s))
        ELSE LET p == CHOOSE q \in starts : \A r \in starts : q <= r
             IN  SubSeq(s, i, p - 1) \o dropPageMarkersFrom(s, pageMarkerEnd(s, p))

dropPageMarkers(s) == dropPageMarkersFrom(s, 1)

\* .replace(/\n{3,}/g, "\n\n")
collapseNewlines(s) ==
    Flatten([i \in 1..Len(s) |->
                IF i > 2 /\ s[i] = "\n" /\ s[i - 1] = "\n" /\ s[i - 2] = "\n"
                THEN <<>> ELSE <<s[i]>>])

\* String.prototype.split("\n")
RECURSIVE splitLines(_)
splitLines(s) ==
    LET nls == {j \in 1..Len(s) : s[j] = "\n"}
    IN  IF nls = {} THEN <<s>>
        ELSE LET j == CHOOSE q \in nls : \A r \in nls : q <= r
             IN  <<SubSeq(s, 1, j - 1)>> \o splitLines(SubSeq(s, j + 1, Len(s)))

\* .split("\n").map((line) => line.replace(/\s+$/g, "")).join("\n")
trimLineEnds(s) ==
    join([i \in 1..Len(splitLines(s)) |-> trimEnd(splitLines(s)[i])], <<"\n">>)

cleanPrdText(raw) ==
    trim(trimLineEnds(collapseNewlines(dropPageMarkers(normalizeBullets(
        joinHyphenated(stripInvisible(normalizeNewlines(raw))))))))

(***************************************************************************)
(* api/plan: the request, the prompt and the handler POST.                 *)
(***************************************************************************)
\* z.string().min(20)
MinPrdLength == 20

\* a JSON value of the request body, by type
JsUndefined == [type |-> "undefined", str |-> <<>>]
JsNumber == [type |-> "number", str |-> <<>>]
JsString(s) == [type |-> "string", str |-> s]
JsNull == [type |-> "null", str |-> <<>>]

PlatformNames == {<<"w", "e", "b">>, <<"m", "o", "b", "i", "l", "e">>, <<"a", "p", "i">>, <<"o", "t", "h", "e", "r">>}

\* z.string().optional()
optionalString(v) == v.type \in {"undefined", "string"}

\* mutant: the minimum length is compared with > instead of >=
PlanRequestSchemaAccepts_OffByOne(json) ==
    /\ json.prd.type = "string"
    /\ Len(json.prd.str) > MinPrdLength - 2
    /\ optionalString(json.productName)
    /\ optionalString(json.targetUser)
    /\ json.platform.type = "undefined"
           \/ (json.platform.type = "string" /\ json.platform.str \in PlatformNames)
    /\ optionalString(json.constraints)
    /\ optionalString(json.releaseDate)

\* whether PlanRequestSchema.parse accepts the body
PlanRequestSchemaAccepts(json) ==
    /\ json.prd.type = "string"
    /\ Len(json.prd.str) >= MinPrdLength
    /\ optionalString(json.productName)
    /\ optionalString(json.targetUser)
    /\ json.platform.type = "undefined"
           \/ (json.platform.type = "string" /\ json.platform.str \in PlatformNames)
    /\ optionalString(json.constraints)
    /\ optionalString(json.releaseDate)

\* input.x ?? placeholder
orElse(v, placeholder) == IF v.type = "undefined" THEN placeholder ELSE v.str

\* the template literal of buildPrompt up to the first context field
PromptInstructions ==
    <<"\n", "Y", "o", "u", " ", "a", "r", "e", " ", "a", " ", "P", "R", "D", "-", "t", "o", "-", "T", "i", "c", "k", "e", "t", " ", "a", "g", "e", "n", "t", ".", "\n", "\n", "H", "a", "r", "d", " ", "r", "e", "q", "u", "i", "r", "e", "m", "e", "n", "t", "s", ":", "\n", "-", " ", "R", "e", "t", "u", "r", "n", " ", "O", "N", "L", "Y", " ", "a", " ", "J", "S", "O", "N", " ", "o", "b", "j", "e", "c", "t", " ", "t", "h", "a", "t", " ", "m", "a", "t", "c", "h", "e", "s", " ", "t", "h", "e", " ", "p", "r", "o", "v", "i", "d", "e", "d", " ", "s", "c", "h", "e", "m", "a", ".", " ", "N", "o", " ", "m", "a", "r", "k", "d", "o", "w", "n", ".", " ", "N", "o", " ", "e", "x", "t", "r", "a", " ", "k", "e", "y", "s", ".", "\n", "-", " ", "A", "l", "w", "a", "y", "s", " ", "i", "n", "c", "l", "u", "d", "e", " ", "E", "V", "E", "R", "Y", " ", "f", "i", "e", "l", "d", " ", "i", "n", " ", "t", "h", "e", " ", "s", "c", "h", "e", "m", "a", " ", "f", "o", "r", " ", "E", "V", "E", "R", "Y", " ", "o", "b", "j", "e", "c", "t", ".", "\n", " ", " ", "-", " ", "I", "f", " ", "u", "n", "k", "n", "o", "w", "n", ":", " ", "u", "s", "e", " ", "\"", "\"", " ", "f", "o", "r", " ", "s", "t", "r", "i", "n", "g", "s", ",", " ", "[", "]", " ", "f", "o", "r", " ", "a", "r", "r", "a", "y", "s", ",", " ", "{", "}", " ", "f", "o", "r", " ", "o", "b", "j", "e", "c", "t", "s", ".", "\n", "-", " ", "I", "f", " ", "c", "r", "i", "t", "i", "c", "a", "l", " ", "i", "n", "f", "o", " ", "i", "s", " ", "m", "i", "s", "s", "i", "n", "g", ",", " ", "a", "d", "d", " ", "u", "p", " ", "t", "o", " ", "6", " ", "c", "l", "a", "r", "i", "f", "y", "i", "n", "g", " ", "q", "u", "e", "s", "t", "i", "o", "n", "s", " ", "t", "o", " ", "m", "e", "t", "a", ".", "o", "p", "e", "n", "Q", "u", "e", "s", "t", "i", "o", "n", "s", ",", " ", "b", "u", "t", " ", "s", "t", "i", "l", "l", " ", "p", "r", "o", "d", "u", "c", "e", " ", "a", " ", "b", "e", "s", "t", "-", "e", "f", "f", "o", "r", "t", " ", "p", "l", "a", "n", ".", "\n", "\n", "I", "D", " ", "r", "u", "l", "e", "s", " ", "(", "c", "r", "i", "t", "i", "c", "a", "l", " ", "f", "o", "r", " ", "s", "c", "h", "e", "m", "a", " ", "v", "a", "l", "i", "d", "i", "t", "y", ")", ":", "\n", "-", " ", "E", "p", "i", "c", "s", " ", "M", "U", "S", "T", " ", "u", "s", "e", " ", "e", "p", "i", "c", "I", "d", " ", "v", "a", "l", "u", "e", "s", ":", " ", "\"", "E", "1", "\"", ",", " ", "\"", "E", "2", "\"", ",", " ", ".", ".", ".", " ", "s", "e", "q", "u", "e", "n", "t", "i", "a", "l", ".", "\n", "-", " ", "T", "i", "c", "k", "e", "t", "s", " ", "M", "U", "S", "T", " ", "u", "s", "e", " ", "t", "i", "c", "k", "e", "t", "I", "d", " ", "v", "a", "l", "u", "e", "s", ":", " ", "\"", "T", "1", "\"", ",", " ", "\"", "T", "2", "\"", ",", " ", ".", ".", ".", " ", "s", "e", "q", "u", "e", "n", "t", "i", "a", "l", ".", "\n", "-", " ", "E", "v", "e", "r", "y", " ", "t", "i", "c", "k", "e", "t", " ", "M", "U", "S", "T", " ", "i", "n", "c", "l", "u", "d", "e", " ", "\"", "e", "p", "i", "c", "I", "d", "\"", " ", "a", "n", "d", " ", "i", "t", " ", "M", "U", "S", "T", " ", "m", "a", "t", "c", "h", " ", "o", "n", "e", " ", "o", "f", " ", "t", "h", "e", " ", "e", "p", "i", "c", "s", "[", "]", ".", "e", "p", "i", "c", "I", "d", " ", "v", "a", "l", "u", "e", "s", ".", "\n", "-", " ", "E", "v", "e", "r", "y", " ", "e", "p", "i", "c", " ", "M", "U", "S", "T", " ", "i", "n", "c", "l", "u", "d", "e", " ", "a", " ", "\"", "t", "i", "c", "k", "e", "t", "s", "\"", " ", "a", "r", "r", "a", "y", " ", "l", "i", "s", "t", "i", "n", "g", " ", "t", "i", "c", "k", "e", "t", "I", "d", "s", " ", "t", "h", "a", "t", " ", "b", "e", "l", "o", "n", "g", " ", "t", "o", " ", "t", "h", "a", "t", " ", "e", "p", "i", "c", ".", "\n", "\n", "Q", "u", "a", "l", "i", "t", "y", " ", "b", "a", "r", ":", "\n", "-", " ", "2", "-", "4", " ", "e", "p", "i", "c", "s", ",", " ", "6", "-", "1", "0", " ", "t", "i", "c", "k", "e", "t", "s", " ", "t", "o", "t", "a", "l", ".", "\n", "-", " ", "E", "a", "c", "h", " ", "e", "p", "i", "c", " ", "m", "u", "s", "t", " ", "i", "n", "c", "l", "u", "d", "e", " ", "a", "t", " ", "l", "e", "a", "s", "t", " ", "2", " ", "e", "d", "g", "e", "C", "a", "s", "e", "s", ".", "\n", "-", " ", "E", "a", "c", "h", " ", "t", "i", "c", "k", "e", "t", " ", "m", "u", "s", "t", " ", "i", "n", "c", "l", "u", "d", "e", ":", "\n", " ", " ", "-", " ", "a", "t", " ", "l", "e", "a", "s", "t", " ", "3", " ", "a", "c", "c", "e", "p", "t", "a", "n", "c", "e", "C", "r", "i", "t", "e", "r", "i", "a", "\n", " ", " ", "-", " ", "a", "t", " ", "l", "e", "a", "s", "t", " ", "2", " ", "q", "a", ".", "t", "e", "s", "t", "C", "a", "s", "e", "s", "\n", " ", " ", "-", " ", "o", "u", "t", "O", "f", "S", "c", "o", "p", "e", " ", "f", "o", "r", " ", "a", "t", " ", "l", "e", "a", "s", "t", " ", "~", "3", "0", "%", " ", "o", "f", " ", "t", "i", "c", "k", "e", "t", "s", " ", "t", "o", " ", "s", "h", "o", "w", " ", "t", "r", "a", "d", "e", "o", "f", "f", "s", "\n", " ", " ", "-", " ", "a", "n", "a", "l", "y", "t", "i", "c", "s", ".", "e", "v", "e", "n", "t", "s", " ", "w", "i", "t", "h", " ", "a", "t", " ", "l", "e", "a", "s", "t", " ", "1", " ", "e", "v", "e", "n", "t", " ", "a", "n", "d", " ", "a", "t", " ", "l", "e", "a", "s", "t", " ", "2", " ", "p", "r", "o", "p", "e", "r", "t", "i", "e", "s", "\n", "\n", "O", "u", "t", "p", "u", "t", " ", "g", "u", "i", "d", "a", "n", "c", "e", ":", "\n", "-", " ", "S", "u", "m", "m", "a", "r", "i", "z", "e", " ", "a", "n", "d", " ", "r", "e", "p", "h", "r", "a", "s", "e", ",", " ", "d", "o", " ", "N", "O", "T", " ", "c", "o", "p", "y", " ", "l", "o", "n", "g", " ", "p", "a", "s", "s", "a", "g", "e", "s", " ", "f", "r", "o", "m", " ", "t", "h", "e", " ", "P", "R", "D", " ", "v", "e", "r", "b", "a", "t", "i", "m", ".", "\n", "-", " ", "K", "e", "e", "p", " ", "e", "a", "c", "h", " ", "t", "i", "c", "k", "e", "t", " ", "d", "e", "s", "c", "r", "i", "p", "t", "i", "o", "n", " ", "t", "o", " ", "2", "-", "5", " ", "l", "i", "n", "e", "s", ".", "\n", "-", " ", "K", "e", "e", "p", " ", "a", "c", "c", "e", "p", "t", "a", "n", "c", "e", " ", "c", "r", "i", "t", "e", "r", "i", "a", " ", "a", "n", "d", " ", "t", "e", "s", "t", " ", "c", "a", "s", "e", "s", " ", "a", "s", " ", "s", "h", "o", "r", "t", " ", "b", "u", "l", "l", "e", "t", "-", "l", "i", "k", "e", " ", "s", "t", "r", "i", "n", "g", "s", ".", "\n", "\n", "C", "o", "n", "t", "e", "x", "t", " ", "f", "i", "e", "l", "d", "s", ":", "\n", "-", " ", "p", "r", "o", "d", "u", "c", "t", "N", "a", "m", "e", ":", " ">>

\* The prompt: the template literal with the five context fields and the
\* cleaned PRD, trimmed.
buildPrompt(input, cleanedPrd) ==
    trim(Flatten(<<
        PromptInstructions,
        orElse(input.productName, <<"U", "n", "n", "a", "m", "e", "d", " ", "p", "r", "o", "d", "u", "c", "t">>),
        <<"\n", "-", " ", "t", "a", "r", "g", "e", "t", "U", "s", "e", "r", ":", " ">>,
        orElse(input.targetUser, <<"N", "o", "t", " ", "s", "p", "e", "c", "i", "f", "i", "e", "d">>),
        <<"\n", "-", " ", "p", "l", "a", "t", "f", "o", "r", "m", ":", " ">>,
        orElse(input.platform, <<"w", "e", "b">>),
        <<"\n", "-", " ", "c", "o", "n", "s", "t", "r", "a", "i", "n", "t", "s", ":", " ">>,
        orElse(input.constraints, <<"N", "o", "n", "e", " ", "p", "r", "o", "v", "i", "d", "e", "d">>),
        <<"\n", "-", " ", "r", "e", "l", "e", "a", "s", "e", "D", "a", "t", "e", ":", " ">>,
        orElse(input.releaseDate, <<"N", "o", "t", " ", "s", "p", "e", "c", "i", "f", "i", "e", "d">>),
        <<"\n", "\n", "P", "R", "D", ":", "\n">>,
        cleanedPrd,
        <<"\n">> >>))

\* the fixed text of the retry prompt around the error message
RetryHeading ==
    <<"\n", "\n", "I", "M", "P", "O", "R", "T", "A", "N", "T", ":", "\n", "A", " ", "p", "r", "e", "v", "i", "o", "u", "s", " ", "a", "t", "t", "e", "m", "p", "t", " ", "f", "a", "i", "l", "e", "d", " ", "s", "c", "h", "e", "m", "a", " ", "v", "a", "l", "i", "d", "a", "t", "i", "o", "n", " ", "w", "i", "t", "h", " ", "t", "h", "i", "s", " ", "e", "r", "r", "o", "r", ":", "\n">>
RetryRules ==
    <<"\n", "\n", "F", "i", "x", " ", "i", "t", " ", "b", "y", " ", "e", "n", "s", "u", "r", "i", "n", "g", ":", "\n", "-", " ", "E", "v", "e", "r", "y", " ", "t", "i", "c", "k", "e", "t", " ", "i", "n", "c", "l", "u", "d", "e", "s", " ", "e", "p", "i", "c", "I", "d", " ", "a", "n", "d", " ", "i", "t", " ", "m", "a", "t", "c", "h", "e", "s", " ", "a", "n", " ", "e", "x", "i", "s", "t", "i", "n", "g", " ", "e", "p", "i", "c", "I", "d", " ", "(", "E", "1", ",", " ", "E", "2", ",", " ", ".", ".", ".", ")", "\n", "-", " ", "N", "o", " ", "k", "e", "y", "s", " ", "a", "r", "e", " ", "o", "m", "i", "t", "t", "e", "d", " ", "a", "n", "y", "w", "h", "e", "r", "e", "\n", "-", " ", "a", "c", "c", "e", "p", "t", "a", "n", "c", "e", "C", "r", "i", "t", "e", "r", "i", "a", " ", "h", "a", "s", " ", "3", "+", " ", "i", "t", "e", "m", "s", " ", "f", "o", "r", " ", "e", "v", "e", "r", "y", " ", "t", "i", "c", "k", "e", "t", "\n", "-", " ", "q", "a", ".", "t", "e", "s", "t", "C", "a", "s", "e", "s", " ", "h", "a", "s", " ", "2", "+", " ", "i", "t", "e", "m", "s", " ", "f", "o", "r", " ", "e", "v", "e", "r", "y", " ", "t", "i", "c", "k", "e", "t", "\n", "-", " ", "a", "n", "a", "l", "y", "t", "i", "c", "s", ".", "e", "v", "e", "n", "t", "s", " ", "h", "a", "s", " ", "a", "t", " ", "l", "e", "a", "s", "t", " ", "1", " ", "e", "v", "e", "n", "t", " ", "f", "o", "r", " ", "e", "v", "e", "r", "y", " ", "t", "i", "c", "k", "e", "t", "\n">>

\* mutant: the template literal is sent as it is, without .trim()
retryPrompt_Untrimmed(prompt, msg) ==
    Flatten(<< <<"\n">>, prompt, RetryHeading, msg, RetryRules >>)

\* the prompt of the second attempt: the template literal with the first
\* prompt and the error message of the first attempt, trimmed
retryPrompt(prompt, msg) ==
    trim(Flatten(<< <<"\n">>, prompt, RetryHeading, msg, RetryRules >>))

\* a value thrown by the oracle call: an Error with a message, or a value
\* without a string message
ErrorWith(m) == [hasMessage |-> TRUE, message |-> m]
ErrorWithoutMessage == [hasMessage |-> FALSE, message |-> <<>>]

\* typeof err?.message === "string" ? err.message : placeholder
messageOr(err, placeholder) == IF err.hasMessage THEN err.message ELSE placeholder

\* what the handler exchanges with the oracle
Invoke(prompt, temperature) == [ev |-> "invoke", prompt |-> prompt, temperature |-> temperature]
Return == [ev |-> "return"]
Raise(err) == [ev |-> "raise", error |-> err]

\* generatePlanObject(prompt, temperature): the call is sent
generatePlanObject(prompt, temperature) == Invoke(prompt, temperature)

NoResponse == [status |-> 0, body |-> [pending |-> TRUE]]
\* Response.json(validated)
PlanResponse(plan) == [status |-> 200, body |-> plan]
\* Response.json({error: "PLAN_GENERATION_FAILED", message}, {status: 500})
FailureResponse(message) ==
    [status |-> 500, body |-> [error |-> "PLAN_GENERATION_FAILED", message |-> message]]

\* the statements of POST after the oracle's output is known, up to
\* PlanSchema.parse; an exception of any of them ends them
assemblePlan(output) ==
    LET normalized == normalizeIds(output)
        links == buildLinearLinks(normalized.value.tickets)
        withLinks == [meta |-> normalized.value.meta,
                      summary |-> normalized.value.summary,
                      epics |-> normalized.value.epics,
                      tickets |-> normalized.value.tickets,
                      exports |-> [markdown |-> <<>>, linear |-> links.value]]
        markdown == planToMarkdown(withLinks)
    IN  IF ~normalized.ok THEN Thrown(normalized.message)
        ELSE IF ~links.ok THEN Thrown(links.message)
        ELSE IF ~markdown.ok THEN Thrown(markdown.message)
        ELSE PlanSchemaParse([withLinks EXCEPT !.exports.markdown = markdown.value])

\* mutant: an exception of the statements after the oracle call escapes the
\* handler, which gives no response
respondWith_LettingEscape(output) ==
    LET validated == assemblePlan(output)
    IN  IF validated.ok THEN PlanResponse(validated.value)
        ELSE NoResponse

\* the response once the oracle's output is known
respondWith(output) ==
    LET validated == assemblePlan(output)
    IN  IF validated.ok THEN PlanResponse(validated.value)
        ELSE FailureResponse(validated.message)

(***************************************************************************)
(* Decoded PlanCore values (what Output.object({schema: PlanCoreSchema})   *)
(* hands to the route): every field present and of its type.               *)
(***************************************************************************)
MetaValue ==
    [productName |-> <<"P">>, platform |-> <<"w", "e", "b">>, confidence |-> 70,
     assumptions |-> <<>>, openQuestions |-> <<>>]

SummaryValue ==
    [problem |-> <<"p">>, targetUsers |-> <<>>, goals |-> << <<"g">> >>,
     nonGoals |-> <<>>, successMetrics |-> <<>>]

EpicWith(epicId, tickets) ==
    [epicId |-> epicId, title |-> <<"e">>, outcome |-> <<"o">>,
     tickets |-> JsArray(tickets), edgeCases |-> <<>>]

TicketWith(ticketId, epicId, title, outOfScope) ==
    [ticketId |-> ticketId, epicId |-> epicId, type |-> <<"b", "u", "g">>,
     title |-> title, userStory |-> <<"u">>, description |-> <<"d">>,
     acceptanceCriteria |-> << <<"a">> >>, outOfScope |-> outOfScope,
     dependencies |-> <<>>, priority |-> <<"P", "1">>, estimate |-> <<"S">>,
     labels |-> <<>>, components |-> <<>>,
     analytics |-> [events |-> << [name |-> <<"n">>, properties |-> << <<"x">>, <<"y">> >>] >>],
     qa |-> [testCases |-> << <<"q">> >>]]

\* ids as the oracle may write them: absent, padded, out of sequence, or the
\* name of a member of Object.prototype
EpicIdValues ==
    {<<>>, <<" ">>, <<"E", "2">>, <<" ", "E", "1", " ">>,
     <<"v", "a", "l", "u", "e", "O", "f">>}
TicketIdValues == {<<>>, <<"\t">>, <<"T", "2">>, <<" ", "T", "1">>}
\* the tickets list of an epic as the oracle may write it
OracleEpicTickets == {<<>>, << <<"T", "9">> >>}

SeqsOfLen(S, k) == [1..k -> S]

\* the decoded plan with these epics and tickets
PlanOf(epics, tickets) ==
    [meta |-> MetaValue, summary |-> SummaryValue, epics |-> epics, tickets |-> tickets]

RepairEpics == {EpicWith(id, ts) : id \in EpicIdValues, ts \in OracleEpicTickets}
RepairTickets ==
    {TicketWith(id, eid, <<"A">>, <<>>) : id \in TicketIdValues, eid \in EpicIdValues}

\* the PRD texts of the requests, by length
SampleText ==
    <<"L", "o", "g", "i", "n", " ", "p", "a", "g", "e", " ", "\r", "\n",
      "P", "a", "g", "e", " ", "2", "\n", "\n", "\n", "\n", "o", "k">>
PrdOfLength(n) == SubSeq(SampleText, 1, n)

RequestBody(readable, prd, productName, platform) ==
    [readable |-> readable, prd |-> prd, productName |-> productName,
     targetUser |-> JsUndefined, platform |-> platform,
     constraints |-> JsUndefined, releaseDate |-> JsString(<<"Q", "2">>)]

NoBody == RequestBody(FALSE, JsUndefined, JsUndefined, JsUndefined)

\* bodies that are no JSON, that lack prd or give it the wrong type or a
\* length around the minimum, with and without optional fields, valid or not
RequestBodies ==
    {NoBody} \cup
    { RequestBody(TRUE, prd, name, platform) :
        prd \in {JsUndefined, JsNumber, JsString(PrdOfLength(1)),
                 JsString(PrdOfLength(MinPrdLength - 1)),
                 JsString(PrdOfLength(MinPrdLength))},
        name \in {JsUndefined, JsString(<<"A", "p", "p">>), JsNumber},
        platform \in {JsUndefined, JsString(<<"m", "o", "b", "i", "l", "e">>),
                      JsString(<<"i", "o", "s">>)} }

\* what the oracle call may throw
OracleErrors ==
    {ErrorWith(<<"N", "o", " ", "o", "b", "j", "e", "c", "t", " ", "g", "e", "n", "e", "r", "a", "t", "e", "d", ":", " ", "r", "e", "s", "p", "o", "n", "s", "e", " ", "d", "i", "d", " ", "n", "o", "t", " ", "m", "a", "t", "c", "h", " ", "s", "c", "h", "e", "m", "a", ".">>),
     ErrorWith(<<" ", "R", "a", "t", "e", " ", "l", "i", "m", "i", "t", " ", "r", "e", "a", "c", "h", "e", "d", "\n">>),
     ErrorWithoutMessage}

\* what the oracle may return: decoded plans with few epics and tickets
OracleEpicIds == {<<>>, <<"E", "2">>, <<"v", "a", "l", "u", "e", "O", "f">>}
OracleTicketIds == {<<>>, <<"T", "2">>}
OracleTitles == {<<"A">>, <<"B", " ", "c">>}
OracleEpics == {EpicWith(id, <<>>) : id \in OracleEpicIds}
OracleTicketEpicIds == {<<>>, <<"E", "2">>}
\* tickets whose list fields are empty or not
OracleListedTickets ==
    {[TicketWith(<<"T", "2">>, <<"E", "2">>, <<"A">>, << <<"s">> >>) EXCEPT
         !.qa = [testCases |-> <<>>]],
     [TicketWith(<<"T", "2">>, <<>>, <<"A">>, <<>>) EXCEPT
         !.dependencies = << <<"d">>, <<"e", " ", "f">> >>,
         !.analytics = [events |-> <<>>]],
     [TicketWith(<<>>, <<"E", "2">>, <<"B", " ", "c">>, << <<"s">>, <<"t">> >>) EXCEPT
         !.dependencies = << <<"d">> >>,
         !.acceptanceCriteria = <<>>]}
OracleTickets ==
    {TicketWith(id, eid, title, <<>>) :
        id \in OracleTicketIds, eid \in OracleTicketEpicIds, title \in OracleTitles}
    \cup OracleListedTickets

(***************************************************************************)
(* One request to the plan endpoint. The handler suspends at its awaits:   *)
(* req.json() and the two calls of generatePlanObject.                     *)
(***************************************************************************)
RequestIdle ==
    /\ pc = "idle"
    /\ body = NoBody
    /\ oracleLog = <<>>
    /\ response = NoResponse

RepairIdle ==
    /\ rStep = "idle"
    /\ rIn = <<>>
    /\ rOut = NoOutcome
    /\ rOut2 = NoOutcome

DecodeIdle ==
    /\ dStep = "idle"
    /\ dIn = <<>>
    /\ dOut = NoOutcome

LinkIdle ==
    /\ lStep = "idle"
    /\ lIn = <<>>
    /\ lOut = NoOutcome

CleanIdle ==
    /\ cStep = "idle"
    /\ cIn = <<>>
    /\ cOut = <<>>
    /\ cOut2 = <<>>

ExtractIdle ==
    /\ xPc = "idle"
    /\ xFile = <<>>
    /\ xLog = <<>>
    /\ xText = <<>>
    /\ xResponse = NoResponse

\* the page as it is first rendered (the initial values of useState)
PageIdle ==
    /\ uPrd = <<>>
    /\ uPlan = JsNull
    /\ uError = JsNull
    /\ uLoading = FALSE
    /\ uExtracting = FALSE
    /\ uPlanFetches = <<>>
    /\ uExtractions = <<>>
    /\ uPlanFrom = JsNull
    /\ uCopied = JsNull

Init ==
    /\ RequestIdle
    /\ RepairIdle
    /\ DecodeIdle
    /\ LinkIdle
    /\ CleanIdle
    /\ ExtractIdle
    /\ PageIdle

\* a request arrives and the handler awaits req.json()
Post ==
    /\ pc = "idle"
    /\ \E b \in RequestBodies : body' = b
    /\ pc' = "json"
    /\ UNCHANGED <<oracleLog, response, exceptRequest>>

\* req.json() rejects: the body is no JSON
BodyUnreadable ==
    /\ pc = "json"
    /\ ~body.readable
    /\ response' = FailureResponse("Unexpected end of JSON input")
    /\ pc' = "done"
    /\ UNCHANGED <<body, oracleLog, exceptRequest>>

\* PlanRequestSchema.parse throws a ZodError
BodyRejected ==
    /\ pc = "json"
    /\ body.readable
    /\ ~PlanRequestSchemaAccepts(body)
    /\ response' = FailureResponse("ZodError: invalid request")
    /\ pc' = "done"
    /\ UNCHANGED <<body, oracleLog, exceptRequest>>

\* the body is valid: the prompt is built and the first call is sent
BodyAccepted ==
    /\ pc = "json"
    /\ body.readable
    /\ PlanRequestSchemaAccepts(body)
    /\ oracleLog' = <<generatePlanObject(buildPrompt(body, cleanPrdText(body.prd.str)), 0)>>
    /\ pc' = "call1"
    /\ UNCHANGED <<body, response, exceptRequest>>

\* mutant: a failure of the statements after the first call is retried too
FirstCallReturns_RetryingAfterFailure ==
    /\ pc = "call1"
    /\ \E ne \in 0..MaxOracleItems : \E nt \in 0..(MaxOracleItems - ne) :
          \E es \in SeqsOfLen(OracleEpics, ne), ts \in SeqsOfLen(OracleTickets, nt) :
              IF respondWith(PlanOf(es, ts)).status = 200
              THEN /\ response' = respondWith(PlanOf(es, ts))
                   /\ oracleLog' = Append(oracleLog, Return)
                   /\ pc' = "done"
              ELSE /\ response' = response
                   /\ oracleLog' = oracleLog \o
                          << Return,
                             generatePlanObject(
                                 retryPrompt(oracleLog[1].prompt, <<"u", "n", "k", "n", "o", "w", "n">>), 0) >>
                   /\ pc' = "call2"
    /\ UNCHANGED <<body, exceptRequest>>

\* the first call returns an output: the rest of the handler runs
FirstCallReturns ==
    /\ pc = "call1"
    /\ \E ne \in 0..MaxOracleItems : \E nt \in 0..(MaxOracleItems - ne) :
          \E es \in SeqsOfLen(OracleEpics, ne), ts \in SeqsOfLen(OracleTickets, nt) :
              response' = respondWith(PlanOf(es, ts))
    /\ oracleLog' = Append(oracleLog, Return)
    /\ pc' = "done"
    /\ UNCHANGED <<body, exceptRequest>>

\* the first call throws: the catch block builds the retry prompt and sends
\* the second call
FirstCallRaises ==
    /\ pc = "call1"
    /\ \E err \in OracleErrors :
          oracleLog' = oracleLog \o
              << Raise(err),
                 generatePlanObject(
                     retryPrompt(oracleLog[1].prompt, messageOr(err, <<"u", "n", "k", "n", "o", "w", "n">>)), 0) >>
    /\ pc' = "call2"
    /\ UNCHANGED <<body, response, exceptRequest>>

\* the second call returns an output: the rest of the handler runs
RetryReturns ==
    /\ pc = "call2"
    /\ \E ne \in 0..MaxOracleItems : \E nt \in 0..(MaxOracleItems - ne) :
          \E es \in SeqsOfLen(OracleEpics, ne), ts \in SeqsOfLen(OracleTickets, nt) :
              response' = respondWith(PlanOf(es, ts))
    /\ oracleLog' = Append(oracleLog, Return)
    /\ pc' = "done"
    /\ UNCHANGED <<body, exceptRequest>>

\* mutant: the catch block retries after every failure
RetryRaises_RetryingAgain ==
    /\ pc = "call2"
    /\ \E err \in OracleErrors :
          oracleLog' = oracleLog \o
              << Raise(err),
                 generatePlanObject(
                     retryPrompt(oracleLog[1].prompt, messageOr(err, <<"u", "n", "k", "n", "o", "w", "n">>)), 0) >>
    /\ UNCHANGED <<pc, body, response, exceptRequest>>

\* mutant: the failure carries the message of the first attempt's error
RetryRaises_FirstMessage ==
    /\ pc = "call2"
    /\ \E err \in OracleErrors :
          /\ oracleLog' = Append(oracleLog, Raise(err))
          /\ response' = FailureResponse(
                 messageOr(oracleLog[2].error, <<"U", "n", "k", "n", "o", "w", "n", " ", "e", "r", "r", "o", "r", " ", "g", "e", "n", "e", "r", "a", "t", "i", "n", "g", " ", "p", "l", "a", "n", ".">>))
    /\ pc' = "done"
    /\ UNCHANGED <<body, exceptRequest>>

\* the second call throws: the outer catch answers
RetryRaises ==
    /\ pc = "call2"
    /\ \E err \in OracleErrors :
          /\ oracleLog' = Append(oracleLog, Raise(err))
          /\ response' = FailureResponse(messageOr(err, <<"U", "n", "k", "n", "o", "w", "n", " ", "e", "r", "r", "o", "r", " ", "g", "e", "n", "e", "r", "a", "t", "i", "n", "g", " ", "p", "l", "a", "n", ".">>))
    /\ pc' = "done"
    /\ UNCHANGED <<body, exceptRequest>>

Next ==
    \/ Post
    \/ BodyUnreadable
    \/ BodyRejected
    \/ BodyAccepted
    \/ FirstCallReturns
    \/ FirstCallRaises
    \/ RetryReturns
    \/ RetryRaises

Spec == Init /\ [][Next]_vars

(***************************************************************************)
(* The repair pass taken alone: normalizeIds on a decoded plan, then on    *)
(* its own result.                                                         *)
(***************************************************************************)
RepairInit ==
    /\ RequestIdle
    /\ DecodeIdle
    /\ LinkIdle
    /\ CleanIdle
    /\ ExtractIdle
    /\ PageIdle
    /\ rStep = "input"
    /\ \E ne \in 0..MaxItems : \E nt \in 0..(MaxItems - ne) :
          \E es \in SeqsOfLen(RepairEpics, ne), ts \in SeqsOfLen(RepairTickets, nt) :
              rIn = PlanOf(es, ts)
    /\ rOut = NoOutcome
    /\ rOut2 = NoOutcome

Repair ==
    /\ rStep = "input"
    /\ rOut' = normalizeIds(rIn)
    /\ rStep' = "repaired"
    /\ UNCHANGED <<exceptRepair, rIn, rOut2>>

RepairAgain ==
    /\ rStep = "repaired"
    /\ rOut.ok
    /\ rOut2' = normalizeIds(rOut.value)
    /\ rStep' = "repairedTwice"
    /\ UNCHANGED <<exceptRepair, rIn, rOut>>

RepairNext == Repair \/ RepairAgain

SpecRepair == RepairInit /\ [][RepairNext]_vars

(***************************************************************************)
(* Properties of the repair pass (checked under SpecRepair).               *)
(***************************************************************************)
RepairReturned == rStep # "input" /\ rOut.ok

IdsOf(epics) == {epics[i].epicId : i \in 1..Len(epics)}

\* C5: for every input PlanCore, including one with zero epics, after the
\* repair pass every ticket's epicId is one of the epicIds of the repaired
\* plan's epics.
C5_TicketEpicResolves ==
    RepairReturned =>
        \A i \in 1..Len(rOut.value.tickets) :
            rOut.value.tickets[i].epicId \in IdsOf(rOut.value.epics)

\* C6: for every input PlanCore, after the repair pass no two epics have
\* the same epicId and no two tickets have the same ticketId.
C6_IdsUnique ==
    RepairReturned =>
        /\ \A i, j \in 1..Len(rOut.value.epics) :
              rOut.value.epics[i].epicId = rOut.value.epics[j].epicId => i = j
        /\ \A i, j \in 1..Len(rOut.value.tickets) :
              rOut.value.tickets[i].ticketId = rOut.value.tickets[j].ticketId => i = j

\* the ticketIds, in declaration order, of the tickets whose epicId is id
RECURSIVE TicketIdsOfEpic(_, _)
TicketIdsOfEpic(tickets, id) ==
    IF tickets = <<>> THEN <<>>
    ELSE (IF Head(tickets).epicId = id THEN <<Head(tickets).ticketId>> ELSE <<>>)
         \o TicketIdsOfEpic(Tail(tickets), id)

\* C7: after the repair pass each epic's tickets list is exactly the list,
\* in declaration order, of the ticketIds of the tickets whose repaired
\* epicId is that epic's id, the empty list when no ticket matches.
C7_EpicTicketsDerived ==
    RepairReturned =>
        \A i \in 1..Len(rOut.value.epics) :
            rOut.value.epics[i].tickets =
                JsArray(TicketIdsOfEpic(rOut.value.tickets, rOut.value.epics[i].epicId))

\* C8: the repair pass is idempotent: repairing the plan the repair pass
\* returned returns that same plan, field for field.
C8_RepairIdempotent ==
    rStep = "repairedTwice" => rOut2.ok /\ rOut2.value = rOut.value

\* a repaired plan that differs from its input in ids, references and
\* back-references has been repaired a second time
C8_Witness ==
    /\ rStep = "repairedTwice"
    /\ Len(rIn.epics) > 0
    /\ Len(rIn.tickets) > 0
    /\ rOut.value.epics[1].epicId # rIn.epics[1].epicId
    /\ rOut.value.epics[1].tickets # rIn.epics[1].tickets
    /\ rOut.value.tickets[1].ticketId # rIn.tickets[1].ticketId
    /\ rOut.value.tickets[1].epicId # rIn.tickets[1].epicId

\* C9: the repair pass is total: whatever strings the id fields hold and
\* however many epics and tickets there are, normalizeIds returns a plan
\* and raises no error.
C9_RepairTotal ==
    rStep # "input" => rOut.ok

(***************************************************************************)
(* Properties of the plan endpoint (checked under Spec).                   *)
(***************************************************************************)
IsPrefix(s, t) == Len(s) <= Len(t) /\ SubSeq(t, 1, Len(s)) = s

EventsOf(log) == [i \in 1..Len(log) |-> log[i].ev]

\* C1: the oracle is invoked at most twice for a request; the second
\* invocation follows the error raised by the first one, never a first
\* success and never while the first is pending; nothing follows the end of
\* the second invocation.
C1_AtMostTwoSequentialCalls ==
    \/ IsPrefix(EventsOf(oracleLog), <<"invoke", "return">>)
    \/ IsPrefix(EventsOf(oracleLog), <<"invoke", "raise", "invoke", "return">>)
    \/ IsPrefix(EventsOf(oracleLog), <<"invoke", "raise", "invoke", "raise">>)

\* the handler has answered after two invocations
C1_Witness ==
    /\ pc = "done"
    /\ Len(oracleLog) = 4
    /\ oracleLog[3].ev = "invoke"

BothAttemptsRaised ==
    Len(oracleLog) = 4 /\ oracleLog[2].ev = "raise" /\ oracleLog[4].ev = "raise"

\* C2: when both attempts raise, the response has status 500 and the body
\* {error: "PLAN_GENERATION_FAILED", message}, where message is the message
\* of the error of the second attempt, and the body holds no plan.
C2_FailureAfterTwoErrors ==
    BothAttemptsRaised =>
        /\ response.status = 500
        /\ DOMAIN response.body = {"error", "message"}
        /\ response.body.error = "PLAN_GENERATION_FAILED"
        /\ oracleLog[4].error.hasMessage =>
               response.body.message = oracleLog[4].error.message

\* both attempts raised, with different messages
C2_Witness ==
    /\ BothAttemptsRaised
    /\ pc = "done"
    /\ oracleLog[2].error.hasMessage
    /\ oracleLog[4].error.hasMessage
    /\ oracleLog[2].error.message # oracleLog[4].error.message

IsPlanResponse == response.status = 200

\* the data-model invariants of a plan
EpicIdsUnique(plan) ==
    \A i, j \in 1..Len(plan.epics) :
        plan.epics[i].epicId = plan.epics[j].epicId => i = j
TicketIdsUnique(plan) ==
    \A i, j \in 1..Len(plan.tickets) :
        plan.tickets[i].ticketId = plan.tickets[j].ticketId => i = j
TicketEpicsResolve(plan) ==
    \A i \in 1..Len(plan.tickets) : plan.tickets[i].epicId \in IdsOf(plan.epics)
EpicTicketsDerived(plan) ==
    \A i \in 1..Len(plan.epics) :
        plan.epics[i].tickets =
            JsArray(TicketIdsOfEpic(plan.tickets, plan.epics[i].epicId))
OneLinkPerTicket(plan) ==
    /\ Len(plan.exports.linear) = Len(plan.tickets)
    /\ \A i \in 1..Len(plan.tickets) :
          plan.exports.linear[i].ticketId = plan.tickets[i].ticketId

\* C3: a success response satisfies every data-model invariant: unique
\* epicIds, unique ticketIds, every ticket's epicId naming an epic of the
\* plan, derived epic ticket lists, one link per ticket.
C3_OnlyValidPlansReturned ==
    IsPlanResponse =>
        /\ EpicIdsUnique(response.body)
        /\ TicketIdsUnique(response.body)
        /\ TicketEpicsResolve(response.body)
        /\ EpicTicketsDerived(response.body)
        /\ OneLinkPerTicket(response.body)

PrdTooShort == body.prd.type = "string" /\ Len(body.prd.str) < MinPrdLength

\* C4: a request whose prd is shorter than 20 characters is answered with
\* the failure of the input validation and the oracle is never invoked.
C4_ShortPrdRejected ==
    (body.readable /\ PrdTooShort) =>
        /\ oracleLog = <<>>
        /\ pc \in {"json", "done"}
        /\ pc = "done" => response = FailureResponse("ZodError: invalid request")

\* a request with a prd of 19 characters has been answered
C4_Witness ==
    /\ pc = "done"
    /\ body.readable
    /\ body.prd.type = "string"
    /\ Len(body.prd.str) = MinPrdLength - 1
    /\ optionalString(body.productName)
    /\ body.platform.type = "undefined"

\* C10: in every assembled plan exports.linear has as many entries as there
\* are tickets, the i-th entry carries the i-th ticket's ticketId and the
\* URL built from that ticket's title and body.
C10_OneLinkPerTicketInOrder ==
    IsPlanResponse =>
        /\ Len(response.body.exports.linear) = Len(response.body.tickets)
        /\ \A i \in 1..Len(response.body.tickets) :
              /\ response.body.exports.linear[i].ticketId = response.body.tickets[i].ticketId
              /\ response.body.exports.linear[i].linearNewUrl =
                     buildLinearNewUrl(response.body.tickets[i].title,
                                       ticketMarkdownDescription(response.body.tickets[i]))

\* a plan is returned whose two tickets differ in id and in title
C10_Witness ==
    /\ IsPlanResponse
    /\ Len(response.body.tickets) = 2
    /\ response.body.tickets[1].ticketId # response.body.tickets[2].ticketId
    /\ response.body.tickets[1].title # response.body.tickets[2].title
    /\ response.body.exports.linear[1].linearNewUrl # response.body.exports.linear[2].linearNewUrl

(***************************************************************************)
(* lib/schema: the lenient decoding of a candidate object (PlanCoreSchema, *)
(* every leaf carrying a .catch).                                          *)
(***************************************************************************)
\* a JSON value of the candidate, by type; a key that is absent reads as
\* undefined
Undefined == [type |-> "undefined", str |-> <<>>, num |-> 0, items |-> <<>>, fields |-> [none |-> TRUE]]
StringOf(s) == [type |-> "string", str |-> s, num |-> 0, items |-> <<>>, fields |-> [none |-> TRUE]]
NumberOf(n) == [type |-> "number", str |-> <<>>, num |-> n, items |-> <<>>, fields |-> [none |-> TRUE]]
ArrayOf(items) == [type |-> "array", str |-> <<>>, num |-> 0, items |-> items, fields |-> [none |-> TRUE]]
ObjectOf(fields) == [type |-> "object", str |-> <<>>, num |-> 0, items |-> <<>>, fields |-> fields]

\* z.string().catch(fallback)
zStrCatch(v, fallback) == IF v.type = "string" THEN v.str ELSE fallback

\* zStr = z.string().catch("")
zStr(v) == zStrCatch(v, <<>>)

\* whether z.array(z.string()) accepts the value
isStringArray(v) ==
    v.type = "array" /\ \A i \in 1..Len(v.items) : v.items[i].type = "string"

\* zStrArr = z.array(z.string()).catch([])
zStrArr(v) ==
    IF isStringArray(v) THEN [i \in 1..Len(v.items) |-> v.items[i].str] ELSE <<>>

\* z.enum(values).catch(fallback)
zEnumCatch(v, values, fallback) ==
    IF v.type = "string" /\ v.str \in values THEN v.str ELSE fallback

PlatformEnum(v) == zEnumCatch(v, PlatformNames, <<"w", "e", "b">>)

TicketTypeNames == {<<"s", "t", "o", "r", "y">>, <<"t", "a", "s", "k">>, <<"b", "u", "g">>, <<"s", "p", "i", "k", "e">>}
\* mutant: the fallback is the first member of the enumeration
TicketTypeEnum_FirstMember(v) == zEnumCatch(v, TicketTypeNames, <<"s", "t", "o", "r", "y">>)
TicketTypeEnum(v) == zEnumCatch(v, TicketTypeNames, <<"t", "a", "s", "k">>)

PriorityNames == {<<"P", "0">>, <<"P", "1">>, <<"P", "2">>, <<"P", "3">>}
PriorityEnum(v) == zEnumCatch(v, PriorityNames, <<"P", "2">>)

EstimateNames == {<<"S">>, <<"M">>, <<"L">>}
EstimateEnum(v) == zEnumCatch(v, EstimateNames, <<"M">>)

\* z.number().min(0).max(100).catch(70)
zConfidence(v) ==
    IF v.type = "number" /\ v.num >= 0 /\ v.num <= 100 THEN v.num ELSE 70

\* whether z.array(z.object({...})) accepts the value: the leaves of the
\* members never fail, so only a member that is no object does
isObjectArray(v) ==
    v.type = "array" /\ \A i \in 1..Len(v.items) : v.items[i].type = "object"

AnalyticsEventSchema(v) ==
    [name |-> zStr(v.fields.name), properties |-> zStrArr(v.fields.properties)]

\* z.object({events: z.array(AnalyticsEventSchema).catch([])})
\*     .catch({events: []})
TicketAnalyticsSchema(v) ==
    IF v.type = "object" /\ isObjectArray(v.fields.events)
    THEN [events |-> [i \in 1..Len(v.fields.events.items) |->
                         AnalyticsEventSchema(v.fields.events.items[i])]]
    ELSE [events |-> <<>>]

\* z.object({testCases: zStrArr}).catch({testCases: []})
TicketQASchema(v) ==
    IF v.type = "object" THEN [testCases |-> zStrArr(v.fields.testCases)]
    ELSE [testCases |-> <<>>]

\* TicketSchema on an object
TicketSchema(v) ==
    [ticketId |-> zStr(v.fields.ticketId),
     epicId |-> zStrCatch(v.fields.epicId, <<"E", "1">>),
     type |-> TicketTypeEnum(v.fields.type),
     title |-> zStr(v.fields.title),
     userStory |-> zStr(v.fields.userStory),
     description |-> zStr(v.fields.description),
     acceptanceCriteria |-> zStrArr(v.fields.acceptanceCriteria),
     outOfScope |-> zStrArr(v.fields.outOfScope),
     dependencies |-> zStrArr(v.fields.dependencies),
     priority |-> PriorityEnum(v.fields.priority),
     estimate |-> EstimateEnum(v.fields.estimate),
     labels |-> zStrArr(v.fields.labels),
     components |-> zStrArr(v.fields.components),
     analytics |-> TicketAnalyticsSchema(v.fields.analytics),
     qa |-> TicketQASchema(v.fields.qa)]

\* EpicSchema on an object
EpicSchema(v) ==
    [epicId |-> zStr(v.fields.epicId),
     title |-> zStr(v.fields.title),
     outcome |-> zStr(v.fields.outcome),
     tickets |-> JsArray(zStrArr(v.fields.tickets)),
     edgeCases |-> zStrArr(v.fields.edgeCases)]

\* the meta and summary objects of PlanCoreSchema: no .catch on the objects
metaSchema(v) ==
    [productName |-> zStr(v.fields.productName),
     platform |-> PlatformEnum(v.fields.platform),
     confidence |-> zConfidence(v.fields.confidence),
     assumptions |-> zStrArr(v.fields.assumptions),
     openQuestions |-> zStrArr(v.fields.openQuestions)]

summarySchema(v) ==
    [problem |-> zStr(v.fields.problem),
     targetUsers |-> zStrArr(v.fields.targetUsers),
     goals |-> zStrArr(v.fields.goals),
     nonGoals |-> zStrArr(v.fields.nonGoals),
     successMetrics |-> zStrArr(v.fields.successMetrics)]

\* PlanCoreSchema applied to a candidate object: a ZodError when meta or
\* summary is no object, since neither carries a .catch
PlanCoreSchemaParse(v) ==
    IF v.fields.meta.type # "object" THEN Thrown("ZodError: meta: expected object")
    ELSE IF v.fields.summary.type # "object" THEN Thrown("ZodError: summary: expected object")
    ELSE Returned(
        [meta |-> metaSchema(v.fields.meta),
         summary |-> summarySchema(v.fields.summary),
         epics |-> IF isObjectArray(v.fields.epics)
                   THEN [i \in 1..Len(v.fields.epics.items) |-> EpicSchema(v.fields.epics.items[i])]
                   ELSE <<>>,
         tickets |-> IF isObjectArray(v.fields.tickets)
                     THEN [i \in 1..Len(v.fields.tickets.items) |-> TicketSchema(v.fields.tickets.items[i])]
                     ELSE <<>>])
(***************************************************************************)
(* Candidate objects: a well-formed candidate with one epic and one ticket *)
(* in which the oracle left some places out or gave them a wrong type.     *)
(***************************************************************************)
\* places of one candidate that are missing or wrong-typed
MaxDefects == 2

StringPlaces ==
    {"meta.productName", "summary.problem", "epic.epicId", "epic.title",
     "epic.outcome", "ticket.ticketId", "ticket.epicId", "ticket.title",
     "ticket.userStory", "ticket.description", "event.name"}
ListPlaces ==
    {"meta.assumptions", "meta.openQuestions", "summary.targetUsers",
     "summary.goals", "summary.nonGoals", "summary.successMetrics",
     "epic.tickets", "epic.edgeCases", "ticket.acceptanceCriteria",
     "ticket.outOfScope", "ticket.dependencies", "ticket.labels",
     "ticket.components", "qa.testCases", "event.properties"}
EnumPlaces == {"meta.platform", "ticket.type", "ticket.priority", "ticket.estimate"}
RecordPlaces == {"meta", "summary", "ticket.qa", "ticket.analytics", "analytics.events"}

\* a string where an array or an object is expected, a number where a string
\* is expected, an array with a member that is no string, a word outside
\* every enumeration, a number outside 0..100
Defects ==
    {[place |-> p, value |-> v] : p \in StringPlaces, v \in {Undefined, NumberOf(150)}}
    \cup {[place |-> p, value |-> v] :
             p \in ListPlaces, v \in {Undefined, ArrayOf(<<StringOf(<<"a">>), NumberOf(1)>>)}}
    \cup {[place |-> p, value |-> v] : p \in EnumPlaces, v \in {Undefined, StringOf(<<"P", "4">>)}}
    \cup {[place |-> p, value |-> v] : p \in {"meta.confidence"}, v \in {Undefined, NumberOf(150)}}
    \cup {[place |-> p, value |-> v] : p \in RecordPlaces, v \in {Undefined, StringOf(<<"x">>)}}

RECURSIVE SubsetsUpTo(_, _)
SubsetsUpTo(S, k) ==
    IF k = 0 THEN {{}}
    ELSE LET smaller == SubsetsUpTo(S, k - 1)
         IN  smaller \cup {p \cup {x} : p \in smaller, x \in S}

\* the value at a place: the defect planted there, else the well-formed one
valueAt(defects, place, good) ==
    IF \E d \in defects : d.place = place
    THEN (CHOOSE d \in defects : d.place = place).value
    ELSE good

StringsOf(ss) == ArrayOf([i \in 1..Len(ss) |-> StringOf(ss[i])])

Candidate(D) ==
    ObjectOf(
      [meta |-> valueAt(D, "meta", ObjectOf(
          [productName |-> valueAt(D, "meta.productName", StringOf(<<"A", "p", "p">>)),
           platform |-> valueAt(D, "meta.platform", StringOf(<<"m", "o", "b", "i", "l", "e">>)),
           confidence |-> valueAt(D, "meta.confidence", NumberOf(55)),
           assumptions |-> valueAt(D, "meta.assumptions", StringsOf(<<<<"a", "1">>>>)),
           openQuestions |-> valueAt(D, "meta.openQuestions", StringsOf(<<<<"q", "1">>>>))])),
       summary |-> valueAt(D, "summary", ObjectOf(
          [problem |-> valueAt(D, "summary.problem", StringOf(<<"s", "l", "o", "w">>)),
           targetUsers |-> valueAt(D, "summary.targetUsers", StringsOf(<<<<"u", "1">>>>)),
           goals |-> valueAt(D, "summary.goals", StringsOf(<<<<"g", "1">>, <<"g", "2">>>>)),
           nonGoals |-> valueAt(D, "summary.nonGoals", StringsOf(<<<<"n", "1">>>>)),
           successMetrics |-> valueAt(D, "summary.successMetrics", StringsOf(<<<<"m", "1">>>>))])),
       epics |-> ArrayOf(<<ObjectOf(
          [epicId |-> valueAt(D, "epic.epicId", StringOf(<<"E", "7">>)),
           title |-> valueAt(D, "epic.title", StringOf(<<"L", "o", "g", "i", "n">>)),
           outcome |-> valueAt(D, "epic.outcome", StringOf(<<"s", "a", "f", "e">>)),
           tickets |-> valueAt(D, "epic.tickets", StringsOf(<<<<"T", "7">>>>)),
           edgeCases |-> valueAt(D, "epic.edgeCases", StringsOf(<<<<"c", "1">>>>))])>>),
       tickets |-> ArrayOf(<<ObjectOf(
          [ticketId |-> valueAt(D, "ticket.ticketId", StringOf(<<"T", "7">>)),
           epicId |-> valueAt(D, "ticket.epicId", StringOf(<<"E", "7">>)),
           type |-> valueAt(D, "ticket.type", StringOf(<<"b", "u", "g">>)),
           title |-> valueAt(D, "ticket.title", StringOf(<<"F", "o", "r", "m">>)),
           userStory |-> valueAt(D, "ticket.userStory", StringOf(<<"A", "s", " ", "a", " ", "u", "s", "e", "r">>)),
           description |-> valueAt(D, "ticket.description", StringOf(<<"d", "e", "s", "c">>)),
           acceptanceCriteria |-> valueAt(D, "ticket.acceptanceCriteria", StringsOf(<<<<"a", "c">>>>)),
           outOfScope |-> valueAt(D, "ticket.outOfScope", StringsOf(<<<<"s", "s", "o">>>>)),
           dependencies |-> valueAt(D, "ticket.dependencies", StringsOf(<<<<"d", "b">>>>)),
           priority |-> valueAt(D, "ticket.priority", StringOf(<<"P", "0">>)),
           estimate |-> valueAt(D, "ticket.estimate", StringOf(<<"L">>)),
           labels |-> valueAt(D, "ticket.labels", StringsOf(<<<<"a", "u", "t", "h">>>>)),
           components |-> valueAt(D, "ticket.components", StringsOf(<<<<"w", "e", "b">>>>)),
           analytics |-> valueAt(D, "ticket.analytics", ObjectOf(
              [events |-> valueAt(D, "analytics.events", ArrayOf(<<ObjectOf(
                  [name |-> valueAt(D, "event.name", StringOf(<<"l", "o", "g", "i", "n">>)),
                   properties |-> valueAt(D, "event.properties", StringsOf(<<<<"o", "k">>, <<"m", "s">>>>))])>>))])),
           qa |-> valueAt(D, "ticket.qa", ObjectOf(
              [testCases |-> valueAt(D, "qa.testCases", StringsOf(<<<<"t", "1">>>>))]))])>>)])

(***************************************************************************)
(* The lenient decoding taken alone: PlanCoreSchema applied to a           *)
(* candidate.                                                              *)
(***************************************************************************)
DecodeInit ==
    /\ RequestIdle
    /\ RepairIdle
    /\ LinkIdle
    /\ CleanIdle
    /\ ExtractIdle
    /\ PageIdle
    /\ dStep = "input"
    /\ \E D \in SubsetsUpTo(Defects, MaxDefects) : dIn = Candidate(D)
    /\ dOut = NoOutcome

Decode ==
    /\ dStep = "input"
    /\ dOut' = PlanCoreSchemaParse(dIn)
    /\ dStep' = "decoded"
    /\ UNCHANGED <<exceptDecode, dIn>>

DecodeNext == Decode

SpecDecode == DecodeInit /\ [][DecodeNext]_vars

(***************************************************************************)
(* Properties of the lenient decoding (checked under SpecDecode).          *)
(***************************************************************************)
candidateMeta == dIn.fields.meta.fields
candidateSummary == dIn.fields.summary.fields
candidateEpic == dIn.fields.epics.items[1].fields
candidateTicket == dIn.fields.tickets.items[1].fields
candidateEvent == candidateTicket.analytics.fields.events.items[1].fields

\* every nested record of the candidate is an object
RecordsIntact ==
    /\ dIn.fields.meta.type = "object"
    /\ dIn.fields.summary.type = "object"
    /\ candidateTicket.qa.type = "object"
    /\ candidateTicket.analytics.type = "object"
    /\ isObjectArray(candidateTicket.analytics.fields.events)

\* a decoded leaf: the candidate's value when it has the type, else the
\* documented default (the empty string, the empty list, the named member)
StringLeaf(v, out) == out = IF v.type = "string" THEN v.str ELSE <<>>
ListLeaf(v, out) ==
    IF isStringArray(v)
    THEN Len(out) = Len(v.items) /\ \A i \in 1..Len(out) : out[i] = v.items[i].str
    ELSE out = <<>>
EnumLeaf(v, out, names, default) ==
    out = IF v.type = "string" /\ v.str \in names THEN v.str ELSE default
ConfidenceLeaf(v, out) ==
    IF v.type = "number" /\ v.num \in 0..100 THEN out = v.num ELSE out \in 0..100

\* C11: a candidate in which leaf fields are missing or wrong-typed is
\* decoded without failure into a PlanCore that has every field, each
\* affected leaf at its documented default and each other leaf at the
\* candidate's value.
C11_LeavesDecodedOrDefaulted ==
    (dStep = "decoded" /\ RecordsIntact) =>
        /\ dOut.ok
        /\ DOMAIN dOut.value = {"meta", "summary", "epics", "tickets"}
        /\ StringLeaf(candidateMeta.productName, dOut.value.meta.productName)
        /\ EnumLeaf(candidateMeta.platform, dOut.value.meta.platform, PlatformNames, <<"w", "e", "b">>)
        /\ ConfidenceLeaf(candidateMeta.confidence, dOut.value.meta.confidence)
        /\ ListLeaf(candidateMeta.assumptions, dOut.value.meta.assumptions)
        /\ ListLeaf(candidateMeta.openQuestions, dOut.value.meta.openQuestions)
        /\ StringLeaf(candidateSummary.problem, dOut.value.summary.problem)
        /\ ListLeaf(candidateSummary.targetUsers, dOut.value.summary.targetUsers)
        /\ ListLeaf(candidateSummary.goals, dOut.value.summary.goals)
        /\ ListLeaf(candidateSummary.nonGoals, dOut.value.summary.nonGoals)
        /\ ListLeaf(candidateSummary.successMetrics, dOut.value.summary.successMetrics)
        /\ Len(dOut.value.epics) = 1
        /\ StringLeaf(candidateEpic.epicId, dOut.value.epics[1].epicId)
        /\ StringLeaf(candidateEpic.title, dOut.value.epics[1].title)
        /\ StringLeaf(candidateEpic.outcome, dOut.value.epics[1].outcome)
        /\ dOut.value.epics[1].tickets.kind = "array"
        /\ ListLeaf(candidateEpic.tickets, dOut.value.epics[1].tickets.items)
        /\ ListLeaf(candidateEpic.edgeCases, dOut.value.epics[1].edgeCases)
        /\ Len(dOut.value.tickets) = 1
        /\ StringLeaf(candidateTicket.ticketId, dOut.value.tickets[1].ticketId)
        /\ StringLeaf(candidateTicket.epicId, dOut.value.tickets[1].epicId)
        /\ EnumLeaf(candidateTicket.type, dOut.value.tickets[1].type, TicketTypeNames, <<"t", "a", "s", "k">>)
        /\ StringLeaf(candidateTicket.title, dOut.value.tickets[1].title)
        /\ StringLeaf(candidateTicket.userStory, dOut.value.tickets[1].userStory)
        /\ StringLeaf(candidateTicket.description, dOut.value.tickets[1].description)
        /\ ListLeaf(candidateTicket.acceptanceCriteria, dOut.value.tickets[1].acceptanceCriteria)
        /\ ListLeaf(candidateTicket.outOfScope, dOut.value.tickets[1].outOfScope)
        /\ ListLeaf(candidateTicket.dependencies, dOut.value.tickets[1].dependencies)
        /\ EnumLeaf(candidateTicket.priority, dOut.value.tickets[1].priority, PriorityNames, <<"P", "2">>)
        /\ EnumLeaf(candidateTicket.estimate, dOut.value.tickets[1].estimate, EstimateNames, <<"M">>)
        /\ ListLeaf(candidateTicket.labels, dOut.value.tickets[1].labels)
        /\ ListLeaf(candidateTicket.components, dOut.value.tickets[1].components)
        /\ ListLeaf(candidateTicket.qa.fields.testCases, dOut.value.tickets[1].qa.testCases)
        /\ Len(dOut.value.tickets[1].analytics.events) = 1
        /\ StringLeaf(candidateEvent.name, dOut.value.tickets[1].analytics.events[1].name)
        /\ ListLeaf(candidateEvent.properties, dOut.value.tickets[1].analytics.events[1].properties)

InEnum(v, names) == v.type = "string" /\ v.str \in names

\* C12: an enumerated field that is missing or outside its closed set is
\* decoded to web (platform), task (type), P2 (priority), M (estimate), and
\* a decoded plan carries no enumerated value outside its closed set.
C12_EnumDefaults ==
    (dStep = "decoded" /\ dOut.ok) =>
        /\ dOut.value.meta.platform \in PlatformNames
        /\ ~InEnum(candidateMeta.platform, PlatformNames) => dOut.value.meta.platform = <<"w", "e", "b">>
        /\ \A i \in 1..Len(dOut.value.tickets) :
              /\ dOut.value.tickets[i].type \in TicketTypeNames
              /\ dOut.value.tickets[i].priority \in PriorityNames
              /\ dOut.value.tickets[i].estimate \in EstimateNames
              /\ ~InEnum(dIn.fields.tickets.items[i].fields.type, TicketTypeNames)
                     => dOut.value.tickets[i].type = <<"t", "a", "s", "k">>
              /\ ~InEnum(dIn.fields.tickets.items[i].fields.priority, PriorityNames)
                     => dOut.value.tickets[i].priority = <<"P", "2">>
              /\ ~InEnum(dIn.fields.tickets.items[i].fields.estimate, EstimateNames)
                     => dOut.value.tickets[i].estimate = <<"M">>

\* a candidate whose ticket type is missing and whose priority is a word
\* outside P0..P3 has been decoded
C12_Witness ==
    /\ dStep = "decoded"
    /\ dOut.ok
    /\ candidateTicket.type.type = "undefined"
    /\ candidateTicket.priority.type = "string"
    /\ candidateTicket.priority.str \notin PriorityNames
    /\ candidateTicket.estimate.str = <<"L">>
    /\ dOut.value.tickets[1].type = <<"t", "a", "s", "k">>
    /\ dOut.value.tickets[1].estimate = <<"L">>
(***************************************************************************)
(* Properties of the Markdown export (checked under Spec).                 *)
(***************************************************************************)
Contains(s, sub) ==
    \E i \in 1..(Len(s) - Len(sub) + 1) : SubSeq(s, i, i + Len(sub) - 1) = sub

\* C13: in the Markdown export of a returned plan an empty list field is
\* rendered as the list item "- None" under its heading: for a ticket with
\* no dependencies and no out-of-scope items both headings are there, each
\* followed by "- None".
C13_EmptyListsRenderNone ==
    IsPlanResponse =>
        \A i \in 1..Len(response.body.tickets) :
            /\ response.body.tickets[i].dependencies = <<>> =>
                   Contains(response.body.exports.markdown, <<"D", "e", "p", "e", "n", "d", "e", "n", "c", "i", "e", "s", ":", "\n", "-", " ", "N", "o", "n", "e">>)
            /\ response.body.tickets[i].outOfScope = <<>> =>
                   Contains(response.body.exports.markdown, <<"O", "u", "t", " ", "o", "f", " ", "s", "c", "o", "p", "e", ":", "\n", "-", " ", "N", "o", "n", "e">>)
(***************************************************************************)
(* lib/linear taken alone: one call of buildLinearNewUrl.                  *)
(***************************************************************************)
\* code units of the title and the description together
MaxTextLen == 3

\* characters with a meaning in a query string, next to plain ones and to
\* the two halves of a surrogate pair
LinkChars == {"a", "2", "0", " ", "+", "&", "=", "%", HighSurrogate, LowSurrogate}

LinkInit ==
    /\ RequestIdle
    /\ RepairIdle
    /\ DecodeIdle
    /\ CleanIdle
    /\ ExtractIdle
    /\ PageIdle
    /\ lStep = "input"
    /\ \E n \in 0..MaxTextLen : \E k \in 0..n :
          \E title \in SeqsOfLen(LinkChars, k), description \in SeqsOfLen(LinkChars, n - k) :
              lIn = [title |-> title, description |-> description]
    /\ lOut = NoOutcome

\* buildLinearNewUrl(title, description); encodeURIComponent throws a
\* URIError on a lone surrogate
BuildUrl ==
    /\ lStep = "input"
    /\ lOut' = IF WellFormed(lIn.title) /\ WellFormed(lIn.description)
               THEN Returned(buildLinearNewUrl(lIn.title, lIn.description))
               ELSE Thrown("URI malformed")
    /\ lStep' = "built"
    /\ UNCHANGED <<exceptLink, lIn>>

LinkNext == BuildUrl

SpecLink == LinkInit /\ [][LinkNext]_vars

(***************************************************************************)
(* Properties of the issue-creation URL (checked under SpecLink).          *)
(***************************************************************************)
\* the parts of s between the occurrences of the character c
RECURSIVE SplitAt(_, _)
SplitAt(s, c) ==
    LET at == {j \in 1..Len(s) : s[j] = c}
    IN  IF at = {} THEN <<s>>
        ELSE LET j == CHOOSE q \in at : \A r \in at : q <= r
             IN  <<SubSeq(s, 1, j - 1)>> \o SplitAt(SubSeq(s, j + 1, Len(s)), c)

Occurrences(s, c) == Cardinality({j \in 1..Len(s) : s[j] = c})

EscapedChars == {" ", "\n", "\t", "\r", "#", "%", "&", "+", ",", "/", ":", "=", "?", "|"}

\* what a reader of the query string recovers from one parameter value:
\* "+" is a space and %XX sequences are the UTF-8 bytes of a character
\* (a "%" of the value always opens a %XX sequence)
QueryDecode(s) ==
    LET FourBytes == <<"%", "F", "0", "%", "9", "F", "%", "9", "8", "%", "8", "0">>
        opensFour(j) == j >= 1 /\ j + 11 <= Len(s) /\ SubSeq(s, j, j + 11) = FourBytes
        decodedAt(j) ==
            IF (j > 1 /\ s[j - 1] = "%") \/ (j > 2 /\ s[j - 2] = "%") THEN <<>>
            ELSE IF s[j] = "+" THEN <<" ">>
            ELSE IF s[j] # "%" THEN <<s[j]>>
            ELSE IF opensFour(j) THEN <<HighSurrogate, LowSurrogate>>
            ELSE IF opensFour(j - 3) \/ opensFour(j - 6) \/ opensFour(j - 9) THEN <<>>
            ELSE <<CHOOSE c \in EscapedChars : PercentEncoded(c) = SubSeq(s, j, j + 2)>>
    IN  Flatten([j \in 1..Len(s) |-> decodedAt(j)])

LinearNew == <<"h", "t", "t", "p", "s", ":", "/", "/", "l", "i", "n", "e", "a", "r", ".", "n", "e", "w", "?">>

\* C14: a URL that was built targets the fixed endpoint with exactly the
\* parameters title and description, in this order; it holds no space and
\* no "%20", one "+" for each space of the inputs; decoding the two
\* parameter values gives back the title and the description.
C14_UrlShapeAndRoundTrip ==
    (lStep = "built" /\ lOut.ok) =>
        LET url == lOut.value
            params == SplitAt(SubSeq(url, Len(LinearNew) + 1, Len(url)), "&")
        IN  /\ IsPrefix(LinearNew, url)
            /\ Len(params) = 2
            /\ Len(SplitAt(params[1], "=")) = 2
            /\ Len(SplitAt(params[2], "=")) = 2
            /\ SplitAt(params[1], "=")[1] = <<"t", "i", "t", "l", "e">>
            /\ SplitAt(params[2], "=")[1] = <<"d", "e", "s", "c", "r", "i", "p", "t", "i", "o", "n">>
            /\ QueryDecode(SplitAt(params[1], "=")[2]) = lIn.title
            /\ QueryDecode(SplitAt(params[2], "=")[2]) = lIn.description
            /\ ~Contains(url, <<" ">>)
            /\ ~Contains(url, <<"%", "2", "0">>)
            /\ Occurrences(url, "+") =
                   Occurrences(lIn.title, " ") + Occurrences(lIn.description, " ")

\* a URL has been built from a title with a space and a "+" and a
\* description with a "&"
C14_Witness ==
    /\ lStep = "built"
    /\ lOut.ok
    /\ Occurrences(lIn.title, " ") = 1
    /\ Occurrences(lIn.title, "+") = 1
    /\ Occurrences(lIn.description, "&") = 1
    /\ Contains(lOut.value, <<"t", "i", "t", "l", "e", "=", "+", "%", "2", "B", "&", "d", "e", "s", "c", "r", "i", "p", "t", "i", "o", "n", "=", "%", "2", "6">>)
           \/ Contains(lOut.value, <<"t", "i", "t", "l", "e", "=", "%", "2", "B", "+", "&", "d", "e", "s", "c", "r", "i", "p", "t", "i", "o", "n", "=", "%", "2", "6">>)
(***************************************************************************)
(* The text normalizer taken alone: cleanPrdText on a raw text, then on    *)
(* its own result.                                                         *)
(***************************************************************************)
\* code units of the raw text
MaxRawLen == 6

\* a letter, the hyphen, the line break and the space: what broken words,
\* blank lines and trailing spaces are made of
RawChars == {"a", "-", "\n", " "}

\* texts as a PDF export leaves them: CRLF line ends, a page marker, a
\* no-break space, a zero width space, a bullet glyph
RawSamples ==
    {SampleText,
     <<"P", "a", "g", "e", " ", "1", " ", "o", "f", " ", "2", "\r", "\n", Bullet, NBSP, "x", ZWSP>>}

CleanInit ==
    /\ RequestIdle
    /\ RepairIdle
    /\ DecodeIdle
    /\ LinkIdle
    /\ ExtractIdle
    /\ PageIdle
    /\ cStep = "input"
    /\ \/ \E n \in 0..MaxRawLen : cIn \in SeqsOfLen(RawChars, n)
       \/ cIn \in RawSamples
    /\ cOut = <<>>
    /\ cOut2 = <<>>

Clean ==
    /\ cStep = "input"
    /\ cOut' = cleanPrdText(cIn)
    /\ cStep' = "cleaned"
    /\ UNCHANGED <<exceptClean, cIn, cOut2>>

CleanAgain ==
    /\ cStep = "cleaned"
    /\ cOut2' = cleanPrdText(cOut)
    /\ cStep' = "cleanedTwice"
    /\ UNCHANGED <<exceptClean, cIn, cOut>>

CleanNext == Clean \/ CleanAgain

SpecClean == CleanInit /\ [][CleanNext]_vars

(***************************************************************************)
(* Properties of the text normalizer (checked under SpecClean).            *)
(***************************************************************************)
\* C15: the text normalizer is idempotent: normalizing a normalized text
\* gives that same text.
C15_CleanIdempotent ==
    cStep = "cleanedTwice" => cOut2 = cOut
(***************************************************************************)
(* api/extract: texts. An extracted text can be longer than the limit of   *)
(* 120,000 characters, so a text is kept as its runs: a sequence of        *)
(* [ch, n], n >= 1 copies of the character ch, adjacent runs of different  *)
(* characters.                                                             *)
(***************************************************************************)
MAX_FILE_BYTES == 5 * 1024 * 1024
MAX_PDF_PAGES == 50
MAX_EXTRACTED_CHARS == 120000

Nul == "0000"        \* the code unit zero

Run(ch, n) == [ch |-> ch, n |-> n]

\* the concatenation of two texts
concat(a, b) ==
    IF a = <<>> THEN b
    ELSE IF b = <<>> THEN a
    ELSE IF a[Len(a)].ch = b[1].ch
    THEN SubSeq(a, 1, Len(a) - 1) \o <<Run(b[1].ch, a[Len(a)].n + b[1].n)>> \o Tail(b)
    ELSE a \o b

\* the concatenation of a sequence of texts
RECURSIVE concatAll(_)
concatAll(ts) ==
    IF Len(ts) = 0 THEN <<>>
    ELSE IF Len(ts) = 1 THEN ts[1]
    ELSE LET m == Len(ts) \div 2
         IN  concat(concatAll(SubSeq(ts, 1, m)), concatAll(SubSeq(ts, m + 1, Len(ts))))

\* the text made of these runs, empty ones dropped
textOf(runs) ==
    concatAll([i \in 1..Len(runs) |-> IF runs[i].n > 0 THEN <<runs[i]>> ELSE <<>>])

\* String.prototype.length
RECURSIVE length(_)
length(t) ==
    IF Len(t) = 0 THEN 0
    ELSE IF Len(t) = 1 THEN t[1].n
    ELSE LET m == Len(t) \div 2
         IN  length(SubSeq(t, 1, m)) + length(SubSeq(t, m + 1, Len(t)))

\* String.prototype.slice(0, k)
slice(t, k) ==
    textOf([i \in 1..Len(t) |->
               LET before == length(SubSeq(t, 1, i - 1))
               IN  Run(t[i].ch, IF before >= k THEN 0
                                ELSE IF before + t[i].n <= k THEN t[i].n
                                ELSE k - before)])

\* .replace(/\u0000/g, "")
removeNul(t) == textOf([i \in 1..Len(t) |-> IF t[i].ch = Nul THEN Run(Nul, 0) ELSE t[i]])

\* .replace(/\r\n/g, "\n"): of a run of CR before a LF the last one goes
replaceCrLf(t) ==
    textOf([i \in 1..Len(t) |->
               IF t[i].ch = "\r" /\ i < Len(t) /\ t[i + 1].ch = "\n"
               THEN Run("\r", t[i].n - 1)
               ELSE t[i]])

\* .replace(/\n{3,}/g, "\n\n")
collapseBlankLines(t) ==
    [i \in 1..Len(t) |-> IF t[i].ch = "\n" /\ t[i].n >= 3 THEN Run("\n", 2) ELSE t[i]]

\* .replace(/\s+/g, " "): each stretch of whitespace becomes one space
collapseWhiteSpace(t) ==
    textOf([i \in 1..Len(t) |->
               IF t[i].ch \notin WhiteSpace THEN t[i]
               ELSE IF i = 1 \/ t[i - 1].ch \notin WhiteSpace THEN Run(" ", 1)
               ELSE Run(" ", 0)])

\* String.prototype.trim on a text
trimText(t) ==
    LET first == CHOOSE i \in 1..(Len(t) + 1) :
                     /\ i = Len(t) + 1 \/ t[i].ch \notin WhiteSpace
                     /\ \A j \in 1..(i - 1) : t[j].ch \in WhiteSpace
        last == CHOOSE i \in 0..Len(t) :
                     /\ i = 0 \/ t[i].ch \notin WhiteSpace
                     /\ \A j \in (i + 1)..Len(t) : t[j].ch \in WhiteSpace
    IN  SubSeq(t, first, last)

normalizeText(input) ==
    trimText(collapseWhiteSpace(collapseBlankLines(replaceCrLf(removeNul(input)))))

\* "\n\n[TRUNCATED]"
TruncationMarker ==
    <<Run("\n", 2), Run("[", 1), Run("T", 1), Run("R", 1), Run("U", 1), Run("N", 1),
      Run("C", 1), Run("A", 1), Run("T", 1), Run("E", 1), Run("D", 1), Run("]", 1)>>

\* mutant: a text of exactly maxChars characters is marked as truncated
truncate_AtLimit(text, maxChars) ==
    IF length(text) < maxChars THEN text
    ELSE concat(slice(text, maxChars), TruncationMarker)

truncate(text, maxChars) ==
    IF length(text) <= maxChars THEN text
    ELSE concat(slice(text, maxChars), TruncationMarker)

\* extractDocxText once mammoth has answered: value || ""
extractDocxText(value) == truncate(normalizeText(value), MAX_EXTRACTED_CHARS)

\* items.map(str or "").filter(Boolean).join(" ")
pageText(items) ==
    LET kept == SelectSeq(items, LAMBDA it : it # <<>>)
    IN  concatAll([i \in 1..(2 * Len(kept) - 1) |->
                      IF i % 2 = 1 THEN kept[(i + 1) \div 2] ELSE <<Run(" ", 1)>>])

\* Math.min(doc.numPages, MAX_PDF_PAGES)
totalPages(numPages) == IF numPages < MAX_PDF_PAGES THEN numPages ELSE MAX_PDF_PAGES

(***************************************************************************)
(* api/extract: the uploaded file and the handler POST.                    *)
(***************************************************************************)
UpperCase == <<"A", "B", "C", "D", "E", "F", "G", "H", "I", "J", "K", "L", "M", "N", "O", "P", "Q", "R", "S", "T", "U", "V", "W", "X", "Y", "Z">>
LowerCase == <<"a", "b", "c", "d", "e", "f", "g", "h", "i", "j", "k", "l", "m", "n", "o", "p", "q", "r", "s", "t", "u", "v", "w", "x", "y", "z">>

\* String.prototype.toLowerCase
toLowerCase(s) ==
    [i \in 1..Len(s) |->
        IF \E k \in 1..Len(UpperCase) : UpperCase[k] = s[i]
        THEN LowerCase[CHOOSE k \in 1..Len(UpperCase) : UpperCase[k] = s[i]]
        ELSE s[i]]

\* String.prototype.startsWith
startsWith(s, prefix) == Len(s) >= Len(prefix) /\ SubSeq(s, 1, Len(prefix)) = prefix

\* (file.name || "upload").split(".").pop()?.toLowerCase() || ""
extensionOf(file) ==
    LET name == IF file.name = <<>> THEN <<"u", "p", "l", "o", "a", "d">> ELSE file.name
        parts == SplitAt(name, ".")
    IN  toLowerCase(parts[Len(parts)])

TextExtensions == {<<"t", "x", "t">>, <<"m", "d">>, <<"m", "a", "r", "k", "d", "o", "w", "n">>, <<"c", "s", "v">>, <<"j", "s", "o", "n">>}

isText(file) ==
    \/ file.type # <<>> /\ startsWith(file.type, <<"t", "e", "x", "t", "/">>)
    \/ extensionOf(file) \in TextExtensions

\* mutant: a file of exactly the limit is rejected
tooLarge_AtLimit(file) == file.size >= MAX_FILE_BYTES

\* size > MAX_FILE_BYTES
tooLarge(file) == file.size > MAX_FILE_BYTES

\* NextResponse.json({text}), NextResponse.json({message}, {status})
TextResponse(text) == [status |-> 200, body |-> [text |-> text]]
MessageResponse(status, message) == [status |-> status, body |-> [message |-> message]]

(***************************************************************************)
(* Uploads: what the form holds and what the file turns out to contain     *)
(* once it is read.                                                        *)
(***************************************************************************)
\* runs of one text
MaxRuns == 3

\* the "file" entry of the form: absent, a string field, or a File; the
\* content of a File is known once it is read
Upload(entry, name, type, size) ==
    [entry |-> entry, name |-> name, type |-> type, size |-> size,
     numPages |-> 0, items |-> <<>>]

NoUpload == Upload("unreadable", <<>>, <<>>, 0)

FileNames == {<<"a", ".", "t", "x", "t">>, <<"j", "s", "o", "n">>, <<"B", ".", "P", "D", "F">>, <<"c", ".", "d", "o", "c", "x">>, <<"d", ".", "t", "a", "r", ".", "g", "z">>, <<>>}
FileTypes == {<<>>, <<"t", "e", "x", "t", "/", "p", "l", "a", "i", "n">>, <<"a", "p", "p", "l", "i", "c", "a", "t", "i", "o", "n", "/", "p", "d", "f">>}
FileSizes == {MAX_FILE_BYTES, MAX_FILE_BYTES + 1, 6 * 1024 * 1024}

Uploads ==
    {NoUpload, Upload("absent", <<>>, <<>>, 0), Upload("string", <<>>, <<>>, 0)}
    \cup {Upload("file", name, type, size) :
             name \in FileNames, type \in FileTypes, size \in FileSizes}

\* runs a text is made of: around the limit, whitespace to collapse, NUL
TextRuns ==
    {Run("a", 1), Run("a", MAX_EXTRACTED_CHARS - 1), Run("a", MAX_EXTRACTED_CHARS),
     Run("b", 1), Run(" ", 1), Run(" ", 3), Run("\n", 3), Run("\r", 1), Run(Nul, 1)}

\* the items of a PDF page, as the strings they carry ("" for an item
\* without a string)
PageItems ==
    { <<>>,
      << <<Run("a", 1)>> >>,
      << <<Run("a", 2)>>, <<>>, <<Run(" ", 2), Run("b", 1)>> >>,
      << <<Run("a", MAX_EXTRACTED_CHARS - 2)>> >>,
      << <<Run("a", MAX_EXTRACTED_CHARS - 1)>>, <<Run("b", 1)>> >> }
PageCounts == {0, 1, 2, MAX_PDF_PAGES + 1}

(***************************************************************************)
(* One request to the text-extraction endpoint. The handler suspends at    *)
(* its awaits: req.formData(), file.text(), file.arrayBuffer() followed by *)
(* the converter, and each page of a PDF.                                  *)
(***************************************************************************)
ExtractInit ==
    /\ RequestIdle
    /\ RepairIdle
    /\ DecodeIdle
    /\ LinkIdle
    /\ CleanIdle
    /\ PageIdle
    /\ xPc = "idle"
    /\ xFile = NoUpload
    /\ xLog = <<>>
    /\ xText = <<>>
    /\ xResponse = NoResponse

\* a request arrives and the handler awaits req.formData()
ExtractPost ==
    /\ xPc = "idle"
    /\ xFile' \in Uploads
    /\ xPc' = "form"
    /\ UNCHANGED <<exceptExtract, xLog, xText, xResponse>>

\* req.formData() rejects: the outer catch answers
FormUnreadable ==
    /\ xPc = "form"
    /\ xFile.entry = "unreadable"
    /\ xResponse' = MessageResponse(500, "Failed to parse body as FormData.")
    /\ xPc' = "done"
    /\ UNCHANGED <<exceptExtract, xFile, xLog, xText>>

\* !file || !(file instanceof File)
NoFileUploaded ==
    /\ xPc = "form"
    /\ xFile.entry \in {"absent", "string"}
    /\ xResponse' = MessageResponse(400, "No file uploaded")
    /\ xPc' = "done"
    /\ UNCHANGED <<exceptExtract, xFile, xLog, xText>>

FileTooLarge ==
    /\ xPc = "form"
    /\ xFile.entry = "file"
    /\ tooLarge(xFile)
    /\ xResponse' = MessageResponse(413, "File too large for v1 (max 5MB). Paste the PRD text instead.")
    /\ xPc' = "done"
    /\ UNCHANGED <<exceptExtract, xFile, xLog, xText>>

\* a text-like file: await file.text(), then the response
TextFileRead ==
    /\ xPc = "form"
    /\ xFile.entry = "file"
    /\ ~tooLarge(xFile)
    /\ isText(xFile)
    /\ xLog' = Append(xLog, "text")
    /\ \E n \in 0..MaxRuns : \E runs \in SeqsOfLen(TextRuns, n) : xText' = textOf(runs)
    /\ xResponse' = TextResponse(truncate(normalizeText(xText'), MAX_EXTRACTED_CHARS))
    /\ xPc' = "done"
    /\ UNCHANGED <<exceptExtract, xFile>>

\* another file: await file.arrayBuffer(), then the converter of a .docx is
\* called
DocxBytesRead ==
    /\ xPc = "form"
    /\ xFile.entry = "file"
    /\ ~tooLarge(xFile)
    /\ ~isText(xFile)
    /\ extensionOf(xFile) = <<"d", "o", "c", "x">>
    /\ xLog' = xLog \o <<"arrayBuffer", "mammoth">>
    /\ xPc' = "docx"
    /\ UNCHANGED <<exceptExtract, xFile, xText, xResponse>>

\* ... or the PDF parser of a .pdf
PdfBytesRead ==
    /\ xPc = "form"
    /\ xFile.entry = "file"
    /\ ~tooLarge(xFile)
    /\ ~isText(xFile)
    /\ extensionOf(xFile) = <<"p", "d", "f">>
    /\ xLog' = xLog \o <<"arrayBuffer", "getDocument">>
    /\ xPc' = "pdf"
    /\ UNCHANGED <<exceptExtract, xFile, xText, xResponse>>

\* ... or nothing, for any other extension
UnsupportedBytesRead ==
    /\ xPc = "form"
    /\ xFile.entry = "file"
    /\ ~tooLarge(xFile)
    /\ ~isText(xFile)
    /\ extensionOf(xFile) \notin {<<"d", "o", "c", "x">>, <<"p", "d", "f">>}
    /\ xLog' = Append(xLog, "arrayBuffer")
    /\ xResponse' = MessageResponse(400, "Unsupported file type. Use .txt, .md, .pdf, or .docx.")
    /\ xPc' = "done"
    /\ UNCHANGED <<exceptExtract, xFile, xText>>

\* mammoth.extractRawText resolves with the raw text
DocxConverted ==
    /\ xPc = "docx"
    /\ \E n \in 0..MaxRuns : \E runs \in SeqsOfLen(TextRuns, n) : xText' = textOf(runs)
    /\ xResponse' = TextResponse(extractDocxText(xText'))
    /\ xPc' = "done"
    /\ UNCHANGED <<exceptExtract, xFile, xLog>>

\* mammoth.extractRawText rejects: the outer catch answers
DocxFails ==
    /\ xPc = "docx"
    /\ xResponse' = MessageResponse(500, "Can't find end of central directory")
    /\ xPc' = "done"
    /\ UNCHANGED <<exceptExtract, xFile, xLog, xText>>

\* getDocument resolves: the document has its pages; one without pages is
\* answered at once
PdfLoaded ==
    /\ xPc = "pdf"
    /\ \E numPages \in PageCounts, items \in PageItems :
          xFile' = [xFile EXCEPT !.numPages = numPages, !.items = items]
    /\ IF totalPages(xFile'.numPages) = 0
       THEN /\ xResponse' = TextResponse(truncate(normalizeText(xText), MAX_EXTRACTED_CHARS))
            /\ xPc' = "done"
       ELSE /\ xResponse' = xResponse
            /\ xPc' = "page"
    /\ UNCHANGED <<exceptExtract, xLog, xText>>

\* getDocument rejects: the outer catch answers
PdfFails ==
    /\ xPc = "pdf"
    /\ xResponse' = MessageResponse(500, "Invalid PDF structure.")
    /\ xPc' = "done"
    /\ UNCHANGED <<exceptExtract, xFile, xLog, xText>>

\* the pages read so far
pagesRead == Cardinality({i \in 1..Len(xLog) : xLog[i] = "page"})

\* one turn of the loop: getPage and getTextContent resolve, the text of
\* the page is appended; after the last page, or once the text is longer
\* than the limit, the response
PdfPageRead ==
    /\ xPc = "page"
    /\ xLog' = Append(xLog, "page")
    /\ xText' = concat(concat(xText, pageText(xFile.items)), <<Run("\n", 2)>>)
    /\ IF pagesRead + 1 = totalPages(xFile.numPages) \/ length(xText') > MAX_EXTRACTED_CHARS
       THEN /\ xResponse' = TextResponse(truncate(normalizeText(xText'), MAX_EXTRACTED_CHARS))
            /\ xPc' = "done"
       ELSE /\ xResponse' = xResponse
            /\ xPc' = "page"
    /\ UNCHANGED <<exceptExtract, xFile>>

\* getPage or getTextContent rejects: the outer catch answers
PdfPageFails ==
    /\ xPc = "page"
    /\ xResponse' = MessageResponse(500, "Invalid page request.")
    /\ xPc' = "done"
    /\ UNCHANGED <<exceptExtract, xFile, xLog, xText>>

ExtractNext ==
    \/ ExtractPost
    \/ FormUnreadable
    \/ NoFileUploaded
    \/ FileTooLarge
    \/ TextFileRead
    \/ DocxBytesRead
    \/ PdfBytesRead
    \/ UnsupportedBytesRead
    \/ DocxConverted
    \/ DocxFails
    \/ PdfLoaded
    \/ PdfFails
    \/ PdfPageRead
    \/ PdfPageFails

SpecExtract == ExtractInit /\ [][ExtractNext]_vars
(***************************************************************************)
(* Properties of the text-extraction endpoint (checked under SpecExtract). *)
(***************************************************************************)
\* C16: a file larger than 5 MB is answered with the size-limit error and
\* no extraction step is performed on it, whatever its name and type; a
\* file of exactly 5 MB is not answered with the size-limit error.
C16_OversizedNeverRead ==
    /\ (xFile.entry = "file" /\ xFile.size > 5 * 1024 * 1024) =>
           /\ xLog = <<>>
           /\ xPc \in {"form", "done"}
           /\ xPc = "done" => xResponse.status = 413 /\ DOMAIN xResponse.body = {"message"}
    /\ (xFile.entry = "file" /\ xFile.size = 5 * 1024 * 1024 /\ xPc = "done") =>
           xResponse.status # 413

\* a PDF of 6 MB has been answered
C16_Witness ==
    /\ xPc = "done"
    /\ xFile.entry = "file"
    /\ xFile.size = 6 * 1024 * 1024
    /\ extensionOf(xFile) = <<"p", "d", "f">>
    /\ xFile.type = <<"a", "p", "p", "l", "i", "c", "a", "t", "i", "o", "n", "/", "p", "d", "f">>
    /\ xResponse.status = 413

EndsWith(t, suffix) ==
    Len(t) >= Len(suffix) /\ SubSeq(t, Len(t) - Len(suffix) + 1, Len(t)) = suffix

\* the text without its whitespace and NUL characters
Visible(t) ==
    textOf([i \in 1..Len(t) |->
               IF t[i].ch \in WhiteSpace \cup {Nul} THEN Run(t[i].ch, 0) ELSE t[i]])

\* the length a text has once every stretch of whitespace between two
\* visible characters is one space and the whitespace around it is gone
SqueezedLength(t) ==
    LET f == SelectSeq(t, LAMBDA r : r.ch # Nul)
    IN  length([i \in 1..Len(f) |->
                   IF f[i].ch \notin WhiteSpace THEN f[i]
                   ELSE IF /\ i > 1
                           /\ f[i - 1].ch \notin WhiteSpace
                           /\ \E j \in (i + 1)..Len(f) : f[j].ch \notin WhiteSpace
                   THEN Run(" ", 1)
                   ELSE Run(" ", 0)])

\* single spaces are the only whitespace, none of them in front
SqueezedPrefix(t) ==
    \A i \in 1..Len(t) :
        /\ t[i].ch # Nul
        /\ t[i].ch \in WhiteSpace => t[i].ch = " " /\ t[i].n = 1 /\ i > 1

Blank(id) == \A k \in 1..Len(id) : id[k] \in WhiteSpace

\* the id the repair pass gives to the entry at position i (counted from
\* one) whose id was id
PositionalOrTrimmed(id, letter, i) ==
    IF Blank(id) THEN <<letter>> \o NumberToString(i) ELSE trim(id)

\* C18: the repair pass gives the epic (ticket) at 0-based index i whose id
\* is empty or whitespace-only the id "E"+(i+1) ("T"+(i+1)), and any other
\* epic or ticket its own id, trimmed.
C18_PositionalIdsWhenAbsent ==
    RepairReturned =>
        /\ Len(rOut.value.epics) = Len(rIn.epics)
        /\ Len(rOut.value.tickets) = Len(rIn.tickets)
        /\ \A i \in 1..Len(rIn.epics) :
              rOut.value.epics[i].epicId = PositionalOrTrimmed(rIn.epics[i].epicId, "E", i)
        /\ \A i \in 1..Len(rIn.tickets) :
              rOut.value.tickets[i].ticketId = PositionalOrTrimmed(rIn.tickets[i].ticketId, "T", i)

\* the ticket at index 2 had no ticketId and is T3; the one at index 0 keeps
\* its id, trimmed
C18_Witness ==
    /\ RepairReturned
    /\ Len(rIn.tickets) = 3
    /\ rIn.tickets[3].ticketId = <<>>
    /\ rOut.value.tickets[3].ticketId = <<"T", "3">>
    /\ rIn.tickets[1].ticketId = <<" ", "T", "1">>
    /\ rOut.value.tickets[1].ticketId = <<"T", "1">>

\* C19: after the repair pass a ticket whose trimmed epicId is the repaired
\* id of some epic has that trimmed id; any other ticket has the repaired
\* id of the first declared epic, or "E1" when the plan has no epics.
C19_TicketEpicKeptOrFirst ==
    RepairReturned =>
        \A i \in 1..Len(rIn.tickets) :
            rOut.value.tickets[i].epicId =
                IF trim(rIn.tickets[i].epicId) \in IdsOf(rOut.value.epics)
                THEN trim(rIn.tickets[i].epicId)
                ELSE IF Len(rOut.value.epics) > 0 THEN rOut.value.epics[1].epicId
                ELSE <<"E", "1">>

\* of two epics the second is E1; a ticket naming a nonexistent epic has
\* been moved to the first one, which is not E1
C19_Witness ==
    /\ RepairReturned
    /\ Len(rIn.epics) = 2
    /\ Len(rIn.tickets) = 1
    /\ rOut.value.epics[2].epicId = <<"E", "1">>
    /\ rOut.value.epics[1].epicId = <<"E", "2">>
    /\ ~Blank(rIn.tickets[1].epicId)
    /\ trim(rIn.tickets[1].epicId) \notin IdsOf(rOut.value.epics)
    /\ rOut.value.tickets[1].epicId = <<"E", "2">>

\* the two records agree on every field but those named
SameExcept(a, b, names) ==
    /\ DOMAIN a = DOMAIN b
    /\ \A f \in DOMAIN a \ names : a[f] = b[f]

\* the plan out differs from the plan in by ids and back-references only
IdsOnlyChanged(in, out) ==
    /\ SameExcept(in, out, {"epics", "tickets"})
    /\ Len(out.epics) = Len(in.epics)
    /\ Len(out.tickets) = Len(in.tickets)
    /\ \A i \in 1..Len(in.epics) :
          SameExcept(in.epics[i], out.epics[i], {"epicId", "tickets"})
    /\ \A i \in 1..Len(in.tickets) :
          SameExcept(in.tickets[i], out.tickets[i], {"ticketId", "epicId"})

\* C20: a run of the repair pass leaves its input as it was and returns a
\* plan with the same meta and summary, as many epics and tickets in the
\* same order, each equal to its input but for epicId, ticketId and the
\* epic's tickets list.
C20_RepairChangesIdsOnly ==
    [][(rStep = "input" /\ rStep' = "repaired") =>
          /\ rIn' = rIn
          /\ rOut'.ok => IdsOnlyChanged(rIn, rOut'.value)]_vars

\* a plan with an epic and two tickets has been repaired, and ids and
\* back-references have changed
C20_Witness ==
    /\ rStep = "repaired"
    /\ rOut.ok
    /\ Len(rIn.epics) = 1
    /\ Len(rIn.tickets) = 2
    /\ rOut.value.epics[1].epicId # rIn.epics[1].epicId
    /\ rOut.value.epics[1].tickets # rIn.epics[1].tickets
    /\ rOut.value.tickets[1].ticketId # rIn.tickets[1].ticketId
    /\ rOut.value.tickets[2].epicId # rIn.tickets[2].epicId
    /\ rOut.value.tickets[1].title = rIn.tickets[1].title

(***************************************************************************)
(* Nested records of a candidate (checked under SpecDecode).               *)
(***************************************************************************)
\* the structural defaults of the nested records: every field at its default
metaDefault ==
    [productName |-> <<>>, platform |-> <<"w", "e", "b">>, confidence |-> 70,
     assumptions |-> <<>>, openQuestions |-> <<>>]
summaryDefault ==
    [problem |-> <<>>, targetUsers |-> <<>>, goals |-> <<>>, nonGoals |-> <<>>,
     successMetrics |-> <<>>]

\* C21: a candidate whose nested record (meta, summary, a ticket's qa, a
\* ticket's analytics) is missing or wrong-typed is decoded without failure:
\* that record is replaced by its structural default and the rest of the
\* candidate is decoded as it is otherwise.
C21_NestedRecordsDefaulted ==
    dStep = "decoded" =>
        /\ dOut.ok
        /\ dIn.fields.meta.type # "object" => dOut.value.meta = metaDefault
        /\ dIn.fields.meta.type = "object" => dOut.value.meta = metaSchema(dIn.fields.meta)
        /\ dIn.fields.summary.type # "object" => dOut.value.summary = summaryDefault
        /\ dIn.fields.summary.type = "object" => dOut.value.summary = summarySchema(dIn.fields.summary)
        /\ Len(dOut.value.epics) = 1
        /\ Len(dOut.value.tickets) = 1
        /\ candidateTicket.qa.type # "object" => dOut.value.tickets[1].qa = [testCases |-> <<>>]
        /\ candidateTicket.analytics.type # "object" =>
               dOut.value.tickets[1].analytics = [events |-> <<>>]
        /\ StringLeaf(candidateTicket.title, dOut.value.tickets[1].title)
        /\ StringLeaf(candidateEpic.title, dOut.value.epics[1].title)
(***************************************************************************)
(* The payload of the second oracle call (checked under Spec).             *)
(***************************************************************************)
\* C22: when the first oracle call raises, the payload of the second call
\* is the complete first payload, unchanged, followed by a section that
\* cites the message of the error the first call raised ("unknown" when the
\* error has no string message); both calls are made at temperature zero.
C22_RetryPayloadExtendsFirst ==
    (Len(oracleLog) >= 3 /\ oracleLog[2].ev = "raise") =>
        LET first == oracleLog[1].prompt
            second == oracleLog[3].prompt
            appended == SubSeq(second, Len(first) + 1, Len(second))
            cited == IF oracleLog[2].error.hasMessage
                     THEN oracleLog[2].error.message
                     ELSE <<"u", "n", "k", "n", "o", "w", "n">>
        IN  /\ oracleLog[1].ev = "invoke"
            /\ oracleLog[3].ev = "invoke"
            /\ oracleLog[1].temperature = 0
            /\ oracleLog[3].temperature = 0
            /\ IsPrefix(first, second)
            /\ IsPrefix(<<"\n", "\n", "I", "M", "P", "O", "R", "T", "A", "N", "T", ":", "\n", "A", " ", "p", "r", "e", "v", "i", "o", "u", "s", " ", "a", "t", "t", "e", "m", "p", "t", " ", "f", "a", "i", "l", "e", "d", " ", "s", "c", "h", "e", "m", "a", " ", "v", "a", "l", "i", "d", "a", "t", "i", "o", "n", " ", "w", "i", "t", "h", " ", "t", "h", "i", "s", " ", "e", "r", "r", "o", "r", ":", "\n">> \o cited \o <<"\n", "\n", "F", "i", "x", " ", "i", "t", " ", "b", "y", " ", "e", "n", "s", "u", "r", "i", "n", "g", ":", "\n">>,
                        appended)

\* the first call raised an error with a message and the second call has
\* been sent with a longer payload
C22_Witness ==
    /\ Len(oracleLog) >= 3
    /\ oracleLog[2].ev = "raise"
    /\ oracleLog[2].error.hasMessage
    /\ oracleLog[3].ev = "invoke"
    /\ Len(oracleLog[3].prompt) > Len(oracleLog[1].prompt)
    /\ body.productName.type = "string"
(***************************************************************************)
(* The body of a ticket's issue link (checked under Spec).                 *)
(***************************************************************************)
\* the lines of the description a reader recovers from an issue-creation URL
linesOfDescription(url) ==
    LET params == SplitAt(SubSeq(url, Len(LinearNew) + 1, Len(url)), "&")
    IN  SplitAt(QueryDecode(SplitAt(params[2], "=")[2]), "\n")

\* the positions of the lines that are the heading h
HeadingAt(lines, h) == {k \in 1..Len(lines) : lines[k] = h}

\* every line of A comes before every line of B
Before(A, B) == \A a \in A, b \in B : a < b

\* C23: the body of a ticket's issue link lists type, priority, estimate,
\* user story, description, acceptance criteria, out of scope, dependencies,
\* QA test cases and analytics in this order; the "Out of scope:" section is
\* there exactly when outOfScope is non-empty, the "Dependencies:" section
\* exactly when dependencies is non-empty, and the acceptance-criteria, QA
\* and analytics headings are always there.
C23_LinkBodySections ==
    IsPlanResponse =>
        \A i \in 1..Len(response.body.tickets) :
            LET t == response.body.tickets[i]
                lines == linesOfDescription(response.body.exports.linear[i].linearNewUrl)
                ac == HeadingAt(lines, <<"A", "c", "c", "e", "p", "t", "a", "n", "c", "e", " ", "c", "r", "i", "t", "e", "r", "i", "a", ":">>)
                oos == HeadingAt(lines, <<"O", "u", "t", " ", "o", "f", " ", "s", "c", "o", "p", "e", ":">>)
                deps == HeadingAt(lines, <<"D", "e", "p", "e", "n", "d", "e", "n", "c", "i", "e", "s", ":">>)
                qa == HeadingAt(lines, <<"Q", "A", " ", "t", "e", "s", "t", " ", "c", "a", "s", "e", "s", ":">>)
                an == HeadingAt(lines, <<"A", "n", "a", "l", "y", "t", "i", "c", "s", ":">>)
            IN  /\ Len(lines) >= 9
                /\ lines[1] = <<"T", "y", "p", "e", ":", " ">> \o t.type
                /\ lines[2] = <<"P", "r", "i", "o", "r", "i", "t", "y", ":", " ">> \o t.priority
                /\ lines[3] = <<"E", "s", "t", "i", "m", "a", "t", "e", ":", " ">> \o t.estimate
                /\ lines[5] = <<"U", "s", "e", "r", " ", "s", "t", "o", "r", "y", ":", " ">> \o t.userStory
                /\ lines[7] = t.description
                /\ ac = {9}
                /\ Cardinality(qa) = 1
                /\ Cardinality(an) = 1
                /\ Cardinality(oos) = IF t.outOfScope # <<>> THEN 1 ELSE 0
                /\ Cardinality(deps) = IF t.dependencies # <<>> THEN 1 ELSE 0
                /\ Before(ac, oos) /\ Before(ac, deps) /\ Before(ac, qa)
                /\ Before(oos, deps) /\ Before(oos, qa)
                /\ Before(deps, qa)
                /\ Before(qa, an)
                /\ \A k \in oos : SubSeq(lines, k + 1, k + Len(t.outOfScope)) = bulleted(t.outOfScope)
                /\ \A k \in deps : SubSeq(lines, k + 1, k + Len(t.dependencies)) = bulleted(t.dependencies)
                /\ \A k \in qa : SubSeq(lines, k + 1, k + Len(t.qa.testCases)) = bulleted(t.qa.testCases)
                /\ \A k \in an : Len(lines) = k + Len(t.analytics.events)

\* a plan is returned with a ticket that has out-of-scope items and no
\* dependencies, and one with dependencies and nothing out of scope
C23_Witness ==
    /\ IsPlanResponse
    /\ \E i, j \in 1..Len(response.body.tickets) :
          /\ response.body.tickets[i].outOfScope # <<>>
          /\ response.body.tickets[i].dependencies = <<>>
          /\ response.body.tickets[j].outOfScope = <<>>
          /\ response.body.tickets[j].dependencies # <<>>
          /\ response.body.tickets[j].analytics.events = <<>>
(***************************************************************************)
(* The boundary of the plan endpoint (checked under Spec).                 *)
(***************************************************************************)
\* the last exchange with the oracle is an error it raised
LastRaised(log) == log # <<>> /\ log[Len(log)].ev = "raise"

\* C24: the handler answers each request exactly once: the step that ends
\* it, whatever was raised before (by the body parsing, the validation of
\* the input, an oracle call, the repair pass, the export synthesis or the
\* final validation), produces either the plan or the failure payload with
\* status 500, whose message is the message of the exception when it is a
\* string and "Unknown error generating plan." otherwise; the response never
\* changes afterwards and no step ends the handler without a response.
C24_OneResponsePerRequest ==
    [][/\ (response # NoResponse) => (response' = response /\ pc = "done" /\ pc' = "done")
       /\ (pc # "done" /\ pc' = "done") =>
             /\ response = NoResponse
             /\ response' # NoResponse
             /\ response'.status \in {200, 500}
             /\ response'.status = 500 =>
                   /\ DOMAIN response'.body = {"error", "message"}
                   /\ response'.body.error = "PLAN_GENERATION_FAILED"
             /\ LastRaised(oracleLog') =>
                   /\ response'.status = 500
                   /\ response'.body.message =
                          IF oracleLog'[Len(oracleLog')].error.hasMessage
                          THEN oracleLog'[Len(oracleLog')].error.message
                          ELSE <<"U", "n", "k", "n", "o", "w", "n", " ", "e", "r", "r", "o", "r", " ", "g", "e", "n", "e", "r", "a", "t", "i", "n", "g", " ", "p", "l", "a", "n", ".">>
       /\ (pc' # "done") => response' = NoResponse]_vars

\* the oracle returned an output, a later step of the handler raised and
\* the request ended in the failure response
C24_Witness ==
    /\ pc = "done"
    /\ oracleLog # <<>>
    /\ oracleLog[Len(oracleLog)].ev = "return"
    /\ response.status = 500
    /\ response.body.error = "PLAN_GENERATION_FAILED"
(***************************************************************************)
(* The page (PrdPage): the PRD field, the plan on display and the error of *)
(* the last generation, with the two flags loading and extracting. The     *)
(* other cells of the component's state (the optional form fields, the     *)
(* name of the uploaded file, extractError, the active tab) influence none *)
(* of these. A handler runs to its first await in one step; what it awaits *)
(* settles in a later step.                                                *)
(***************************************************************************)
SAMPLE_PRD_1 ==
    <<"P", "r", "o", "d", "u", "c", "t", ":", " ", "A", "I", " ", "L", "a", "n", "g", "u", "a", "g", "e", " ", "T", "u", "t", "o", "r", " ", "-", " ", "C", "o", "n", "v", "e", "r", "s", "a", "t", "i", "o", "n", " ", "P", "r", "a", "c", "t", "i", "c", "e", " ", "F", "e", "a", "t", "u", "r", "e", "\n", "\n", "P", "r", "o", "b", "l", "e", "m", "\n", "U", "s", "e", "r", "s", " ", "s", "t", "r", "u", "g", "g", "l", "e", " ", "t", "o", " ", "p", "r", "a", "c", "t", "i", "c", "e", " ", "r", "e", "a", "l", " ", "c", "o", "n", "v", "e", "r", "s", "a", "t", "i", "o", "n", "s", " ", "i", "n", " ", "t", "h", "e", "i", "r", " ", "t", "a", "r", "g", "e", "t", " ", "l", "a", "n", "g", "u", "a", "g", "e", ".", " ", "F", "l", "a", "s", "h", "c", "a", "r", "d", "s", " ", "d", "o", " ", "n", "o", "t", " ", "p", "r", "e", "p", "a", "r", "e", " ", "t", "h", "e", "m", " ", "f", "o", "r", " ", "f", "l", "u", "i", "d", ",", " ", "n", "a", "t", "u", "r", "a", "l", " ", "d", "i", "a", "l", "o", "g", "u", "e", ".", "\n", "\n", "T", "a", "r", "g", "e", "t", " ", "U", "s", "e", "r", "s", "\n", "I", "n", "t", "e", "r", "m", "e", "d", "i", "a", "t", "e", " ", "l", "a", "n", "g", "u", "a", "g", "e", " ", "l", "e", "a", "r", "n", "e", "r", "s", " ", "(", "B", "1", "-", "B", "2", ")", " ", "w", "h", "o", " ", "w", "a", "n", "t", " ", "t", "o", " ", "i", "m", "p", "r", "o", "v", "e", " ", "c", "o", "n", "v", "e", "r", "s", "a", "t", "i", "o", "n", "a", "l", " ", "f", "l", "u", "e", "n", "c", "y", "\n", "\n", "G", "o", "a", "l", "s", "\n", "-", " ", "E", "n", "a", "b", "l", "e", " ", "r", "e", "a", "l", "i", "s", "t", "i", "c", " ", "c", "o", "n", "v", "e", "r", "s", "a", "t", "i", "o", "n", " ", "p", "r", "a", "c", "t", "i", "c", "e", " ", "w", "i", "t", "h", " ", "a", "n", " ", "A", "I", " ", "t", "u", "t", "o", "r", "\n", "-", " ", "P", "r", "o", "v", "i", "d", "e", " ", "f", "e", "e", "d", "b", "a", "c", "k", " ", "o", "n", " ", "g", "r", "a", "m", "m", "a", "r", " ", "a", "n", "d", " ", "v", "o", "c", "a", "b", "u", "l", "a", "r", "y", " ", "u", "s", "a", "g", "e", "\n", "-", " ", "T", "r", "a", "c", "k", " ", "t", "o", "p", "i", "c", "s", " ", "a", "n", "d", " ", "d", "i", "f", "f", "i", "c", "u", "l", "t", "y", " ", "p", "r", "o", "g", "r", "e", "s", "s", "i", "o", "n", "\n", "\n", "P", "l", "a", "t", "f", "o", "r", "m", "\n", "M", "o", "b", "i", "l", "e", " ", "(", "i", "O", "S", "/", "A", "n", "d", "r", "o", "i", "d", ")", "\n", "\n", "C", "o", "n", "s", "t", "r", "a", "i", "n", "t", "s", "\n", "-", " ", "R", "e", "s", "p", "o", "n", "s", "e", " ", "t", "i", "m", "e", " ", "<", " ", "2", "s", " ", "f", "o", "r", " ", "n", "a", "t", "u", "r", "a", "l", " ", "f", "l", "o", "w", "\n", "-", " ", "S", "t", "a", "r", "t", " ", "w", "i", "t", "h", " ", "5", " ", "l", "a", "n", "g", "u", "a", "g", "e", "s", ":", " ", "S", "p", "a", "n", "i", "s", "h", ",", " ", "F", "r", "e", "n", "c", "h", ",", " ", "G", "e", "r", "m", "a", "n", ",", " ", "J", "a", "p", "a", "n", "e", "s", "e", ",", " ", "M", "a", "n", "d", "a", "r", "i", "n", "\n", "-", " ", "B", "a", "s", "i", "c", " ", "m", "o", "d", "e", " ", "s", "h", "o", "u", "l", "d", " ", "w", "o", "r", "k", " ", "i", "n", " ", "l", "o", "w", "-", "c", "o", "n", "n", "e", "c", "t", "i", "v", "i", "t", "y", " ", "e", "n", "v", "i", "r", "o", "n", "m", "e", "n", "t", "s", "\n", "\n", "S", "u", "c", "c", "e", "s", "s", " ", "M", "e", "t", "r", "i", "c", "s", "\n", "-", " ", "6", "0", "%", "+", " ", "o", "f", " ", "u", "s", "e", "r", "s", " ", "c", "o", "m", "p", "l", "e", "t", "e", " ", "3", "+", " ", "c", "o", "n", "v", "e", "r", "s", "a", "t", "i", "o", "n", "s", " ", "p", "e", "r", " ", "w", "e", "e", "k", "\n", "-", " ", "A", "v", "g", " ", "c", "o", "n", "v", "e", "r", "s", "a", "t", "i", "o", "n", " ", "l", "e", "n", "g", "t", "h", " ", ">", " ", "5", " ", "m", "i", "n", "u", "t", "e", "s", "\n", "-", " ", "C", "o", "n", "v", "e", "r", "s", "a", "t", "i", "o", "n", " ", "q", "u", "a", "l", "i", "t", "y", " ", "r", "a", "t", "i", "n", "g", " ", "4", ".", "5", "+", " ", "/", " ", "5", "\n", "\n", "R", "e", "l", "e", "a", "s", "e", " ", "D", "a", "t", "e", "\n", "Q", "2", " ", "2", "0", "2", "5">>
SAMPLE_PRD_2 ==
    <<"P", "r", "o", "d", "u", "c", "t", ":", " ", "A", "I", " ", "S", "u", "p", "p", "o", "r", "t", " ", "C", "h", "a", "t", "b", "o", "t", " ", "-", " ", "I", "n", "t", "e", "l", "l", "i", "g", "e", "n", "t", " ", "T", "r", "i", "a", "g", "e", "\n", "\n", "P", "r", "o", "b", "l", "e", "m", "\n", "S", "u", "p", "p", "o", "r", "t", " ", "t", "i", "c", "k", "e", "t", "s", " ", "a", "r", "e", " ", "m", "a", "n", "u", "a", "l", "l", "y", " ", "c", "a", "t", "e", "g", "o", "r", "i", "z", "e", "d", ",", " ", "s", "l", "o", "w", "i", "n", "g", " ", "r", "o", "u", "t", "i", "n", "g", " ", "a", "n", "d", " ", "r", "e", "s", "o", "l", "u", "t", "i", "o", "n", ".", " ", "M", "a", "n", "y", " ", "t", "i", "c", "k", "e", "t", "s", " ", "a", "r", "e", " ", "m", "i", "s", "c", "a", "t", "e", "g", "o", "r", "i", "z", "e", "d", " ", "a", "t", " ", "f", "i", "r", "s", "t", " ", "p", "a", "s", "s", ".", "\n", "\n", "T", "a", "r", "g", "e", "t", " ", "U", "s", "e", "r", "s", "\n", "-", " ", "S", "u", "p", "p", "o", "r", "t", " ", "a", "g", "e", "n", "t", "s", " ", "(", "i", "n", "t", "e", "r", "n", "a", "l", ")", "\n", "-", " ", "E", "n", "d", " ", "c", "u", "s", "t", "o", "m", "e", "r", "s", " ", "(", "e", "x", "t", "e", "r", "n", "a", "l", ")", "\n", "\n", "G", "o", "a", "l", "s", "\n", "-", " ", "A", "u", "t", "o", "-", "c", "a", "t", "e", "g", "o", "r", "i", "z", "e", " ", "a", "n", "d", " ", "r", "o", "u", "t", "e", " ", "8", "0", "%", "+", " ", "o", "f", " ", "i", "n", "c", "o", "m", "i", "n", "g", " ", "t", "i", "c", "k", "e", "t", "s", "\n", "-", " ", "S", "u", "g", "g", "e", "s", "t", " ", "r", "e", "l", "e", "v", "a", "n", "t", " ", "K", "B", " ", "a", "r", "t", "i", "c", "l", "e", "s", " ", "b", "e", "f", "o", "r", "e", " ", "c", "r", "e", "a", "t", "i", "n", "g", " ", "a", " ", "t", "i", "c", "k", "e", "t", "\n", "-", " ", "R", "e", "d", "u", "c", "e", " ", "f", "i", "r", "s", "t", " ", "r", "e", "s", "p", "o", "n", "s", "e", " ", "t", "i", "m", "e", " ", "f", "r", "o", "m", " ", "4", "h", " ", "t", "o", " ", "3", "0", "m", "i", "n", "\n", "\n", "P", "l", "a", "t", "f", "o", "r", "m", "\n", "W", "e", "b", " ", "(", "e", "m", "b", "e", "d", "d", "a", "b", "l", "e", " ", "w", "i", "d", "g", "e", "t", " ", "+", " ", "a", "d", "m", "i", "n", " ", "d", "a", "s", "h", "b", "o", "a", "r", "d", ")", "\n", "\n", "C", "o", "n", "s", "t", "r", "a", "i", "n", "t", "s", "\n", "-", " ", "I", "n", "t", "e", "g", "r", "a", "t", "e", " ", "w", "i", "t", "h", " ", "Z", "e", "n", "d", "e", "s", "k", " ", "a", "n", "d", " ", "I", "n", "t", "e", "r", "c", "o", "m", "\n", "-", " ", "G", "D", "P", "R", " ", "c", "o", "m", "p", "l", "i", "a", "n", "t", " ", "(", "E", "U", ")", "\n", "-", " ", "F", "a", "l", "l", "b", "a", "c", "k", " ", "t", "o", " ", "h", "u", "m", "a", "n", " ", "r", "o", "u", "t", "i", "n", "g", " ", "i", "f", " ", "c", "o", "n", "f", "i", "d", "e", "n", "c", "e", " ", "<", " ", "7", "0", "%", "\n", "\n", "N", "o", "n", "-", "g", "o", "a", "l", "s", "\n", "-", " ", "N", "o", "t", " ", "a", " ", "f", "u", "l", "l", " ", "c", "o", "n", "v", "e", "r", "s", "a", "t", "i", "o", "n", "a", "l", " ", "A", "I", " ", "i", "n", " ", "v", "1", " ", "(", "k", "e", "e", "p", " ", "t", "o", " ", "t", "r", "i", "a", "g", "e", ")", "\n", "-", " ", "N", "o", "t", " ", "h", "a", "n", "d", "l", "i", "n", "g", " ", "v", "o", "i", "c", "e", "/", "p", "h", "o", "n", "e", "\n", "\n", "R", "e", "l", "e", "a", "s", "e", " ", "D", "a", "t", "e", "\n", "E", "n", "d", " ", "o", "f", " ", "Q", "1", " ", "2", "0", "2", "5">>

\* const canGenerate = prd.trim().length >= 20
canGenerate == Len(trim(uPrd)) >= 20

\* the disabled attribute of the file input and of its Upload button
\* mutant: the file input is disabled while a plan is generated only
uploadDisabled_LoadingOnly == uLoading
uploadDisabled == uLoading \/ uExtracting
\* the disabled attribute of the Generate Tickets button
generateDisabled == ~canGenerate \/ uLoading
\* the disabled attribute of the Clear button
clearDisabled == uLoading
\* the disabled attribute of the two sample buttons
sampleDisabled == uLoading

\* mutant: the empty string is kept
orIfEmpty_KeepingEmpty(a, b) == a
\* a || b on strings
orIfEmpty(a, b) == IF a = <<>> THEN b ELSE a

\* the ticket-card text block: ticketToMarkdown of the page
ticketToMarkdownCard(t) ==
    LET ac == join([i \in 1..Len(t.acceptanceCriteria) |-> <<"-", " ", "[", " ", "]", " ">> \o t.acceptanceCriteria[i]], <<"\n">>)
        deps == join(bulleted(t.dependencies), <<"\n">>)
        oos == join(bulleted(t.outOfScope), <<"\n">>)
        qa == join(bulleted(t.qa.testCases), <<"\n">>)
        events == join(analyticsLines(t.analytics.events), <<"\n">>)
    IN  Flatten(<<
            <<"#", "#", " ">>, t.ticketId, <<" ", "-", " ">>, t.title,
            <<"\n", "\n", "T", "y", "p", "e", ":", " ">>, t.type, <<" ", "|", " ", "P", "r", "i", "o", "r", "i", "t", "y", ":", " ">>, t.priority,
            <<" ", "|", " ", "E", "s", "t", "i", "m", "a", "t", "e", ":", " ">>, t.estimate, <<" ", "|", " ", "E", "p", "i", "c", ":", " ">>, t.epicId,
            <<"\n", "\n", "U", "s", "e", "r", " ", "s", "t", "o", "r", "y", ":", "\n">>, t.userStory,
            <<"\n", "\n", "D", "e", "s", "c", "r", "i", "p", "t", "i", "o", "n", ":", "\n">>, t.description,
            <<"\n", "\n", "A", "c", "c", "e", "p", "t", "a", "n", "c", "e", " ", "c", "r", "i", "t", "e", "r", "i", "a", ":", "\n">>, ac,
            <<"\n", "\n", "D", "e", "p", "e", "n", "d", "e", "n", "c", "i", "e", "s", ":", "\n">>, orIfEmpty(deps, <<"-", " ", "N", "o", "n", "e">>),
            <<"\n", "\n", "O", "u", "t", " ", "o", "f", " ", "s", "c", "o", "p", "e", ":", "\n">>, orIfEmpty(oos, <<"-", " ", "N", "o", "n", "e">>),
            <<"\n", "\n", "Q", "A", " ", "t", "e", "s", "t", " ", "c", "a", "s", "e", "s", ":", "\n">>, orIfEmpty(qa, <<"-", " ", "N", "o", "n", "e">>),
            <<"\n", "\n", "A", "n", "a", "l", "y", "t", "i", "c", "s", ":", "\n">>, orIfEmpty(events, <<"-", " ", "N", "o", "n", "e">>),
            <<"\n">> >>)

\* plan.exports.linear.find((l) => l.ticketId === t.ticketId)?.linearNewUrl:
\* the URL of the first entry with the ticket's id, undefined without one
linearUrl(plan, t) ==
    LET found == {k \in 1..Len(plan.exports.linear) : plan.exports.linear[k].ticketId = t.ticketId}
    IN  IF found = {} THEN JsUndefined
        ELSE JsString(plan.exports.linear[CHOOSE k \in found : \A q \in found : k <= q].linearNewUrl)

\* what the user types into the PRD field
TypedTexts ==
    {<<"L", "o", "g", "i", "n">>,
     <<" ", " ", "U", "s", "e", "r", "s", " ", "c", "a", "n", "n", "o", "t", " ", "l", "o", "g", " ", "i", "n", " ", " ">>,
     <<"U", "s", "e", "r", "s", " ", "c", "a", "n", "n", "o", "t", " ", "l", "o", "g", " ", "i", "n", ".">>,
     <<"U", "s", "e", "r", "s", " ", "c", "a", "n", " ", "r", "e", "s", "e", "t", " ", "t", "h", "e", "i", "r", " ", "p", "a", "s", "s", "w", "o", "r", "d", "s", ".">>}
\* the text of an uploaded file, as file.text() or /api/extract gives it
FileTexts == {<<>>, <<"H", "i">>, <<"U", "p", "l", "o", "a", "d", "e", "d", ":", " ", "u", "s", "e", "r", "s", " ", "n", "e", "e", "d", " ", "S", "S", "O", ".">>}

\* the outputs of the oracle behind the plans the page receives
PageOracleTickets ==
    {<< >>,
     << TicketWith(<<"T", "2">>, <<>>, <<"A">>, <<>>), TicketWith(<<"T", "2">>, <<>>, <<"B", " ", "c">>, <<>>) >>,
     << [TicketWith(<<"T", "1">>, <<"E", "2">>, <<"A">>, << <<"s">> >>) EXCEPT !.qa = [testCases |-> <<>>]],
        [TicketWith(<<"T", "2">>, <<>>, <<"A">>, <<>>) EXCEPT
            !.dependencies = << <<"d">>, <<"e", " ", "f">> >>, !.analytics = [events |-> <<>>]] >>}

\* how the fetch of /api/plan settles: the response of the endpoint (a plan,
\* or the failure payload), a response of the platform that is no JSON, or a
\* rejection of fetch
PlanFetchOutcomes ==
    {[rejected |-> FALSE, ok |-> TRUE, plan |-> respondWith(PlanOf(<<EpicWith(<<"E", "2">>, <<>>)>>, ts)).body,
      message |-> <<>>, error |-> <<>>, statusText |-> <<"O", "K">>] : ts \in PageOracleTickets}
    \cup {[rejected |-> FALSE, ok |-> FALSE, plan |-> JsNull, message |-> m,
           error |-> <<"P", "L", "A", "N", "_", "G", "E", "N", "E", "R", "A", "T", "I", "O", "N", "_", "F", "A", "I", "L", "E", "D">>, statusText |-> <<"I", "n", "t", "e", "r", "n", "a", "l", " ", "S", "e", "r", "v", "e", "r", " ", "E", "r", "r", "o", "r">>] :
             m \in {<<>>, <<"R", "a", "t", "e", " ", "l", "i", "m", "i", "t", " ", "r", "e", "a", "c", "h", "e", "d">>}}
    \cup {[rejected |-> FALSE, ok |-> FALSE, plan |-> JsNull, message |-> <<>>,
           error |-> <<>>, statusText |-> <<"B", "a", "d", " ", "G", "a", "t", "e", "w", "a", "y">>],
          [rejected |-> TRUE, ok |-> FALSE, plan |-> JsNull, message |-> <<"F", "a", "i", "l", "e", "d", " ", "t", "o", " ", "f", "e", "t", "c", "h">>,
           error |-> <<>>, statusText |-> <<>>]}

\* the sequence without its k-th member
without(s, k) == SubSeq(s, 1, k - 1) \o SubSeq(s, k + 1, Len(s))

\* the pending requests to /api/plan once the PRD field holds text: a
\* request sent with another text is marked as overtaken
overtakenBy(fetches, text) ==
    [k \in 1..Len(fetches) |->
        [fetches[k] EXCEPT !.overtaken = @ \/ fetches[k].prd # text]]

\* the user edits the PRD field: onChange={(e) => setPrd(e.target.value)}
EditPrd ==
    /\ \E text \in TypedTexts \cup {<<>>} : text # uPrd /\ uPrd' = text
    /\ UNCHANGED <<uPlan, uError, uLoading, uExtracting, uPlanFetches, uExtractions,
                   uPlanFrom, uCopied, exceptPage>>

\* the user picks a file: handleUploadFile up to its await (file.text() of a
\* text file, else the fetch of /api/extract)
UploadFile ==
    /\ ~uploadDisabled
    /\ uExtracting' = TRUE
    /\ \E textLike \in BOOLEAN : uExtractions' = Append(uExtractions, [isText |-> textLike])
    /\ UNCHANGED <<uPrd, uPlan, uError, uLoading, uPlanFetches, uPlanFrom, uCopied, exceptPage>>

\* file.text() resolves: the text replaces the PRD, whatever its length
FileTextRead ==
    /\ \E k \in 1..Len(uExtractions) :
          /\ uExtractions[k].isText
          /\ uExtractions' = without(uExtractions, k)
    /\ \E text \in FileTexts :
          /\ uPrd' = text
          /\ uPlanFetches' = overtakenBy(uPlanFetches, text)
    /\ uPlan' = JsNull
    /\ uPlanFrom' = JsNull
    /\ uError' = JsNull
    /\ uExtracting' = FALSE
    /\ UNCHANGED <<uLoading, uCopied, exceptPage>>

\* /api/extract answers with a text of 20 characters or more after trimming
ExtractFetched ==
    /\ \E k \in 1..Len(uExtractions) :
          /\ ~uExtractions[k].isText
          /\ uExtractions' = without(uExtractions, k)
    /\ \E text \in FileTexts :
          /\ Len(trim(text)) >= 20
          /\ uPrd' = text
          /\ uPlanFetches' = overtakenBy(uPlanFetches, text)
    /\ uPlan' = JsNull
    /\ uPlanFrom' = JsNull
    /\ uError' = JsNull
    /\ uExtracting' = FALSE
    /\ UNCHANGED <<uLoading, uCopied, exceptPage>>

\* the read or the extraction fails (file.text() or fetch rejects, the
\* endpoint answers with an error, the text is too short): the catch block
\* sets extractError and the PRD is left alone
ExtractFails ==
    /\ \E k \in 1..Len(uExtractions) : uExtractions' = without(uExtractions, k)
    /\ uExtracting' = FALSE
    /\ UNCHANGED <<uPrd, uPlan, uError, uLoading, uPlanFetches, uPlanFrom, uCopied, exceptPage>>

\* mutant: the error of the previous generation is left on display
Generate_KeepingError ==
    /\ ~generateDisabled
    /\ uLoading' = TRUE
    /\ uPlan' = JsNull
    /\ uPlanFrom' = JsNull
    /\ uPlanFetches' = Append(uPlanFetches, [prd |-> uPrd, overtaken |-> FALSE])
    /\ UNCHANGED <<uPrd, uError, uExtracting, uExtractions, uCopied, exceptPage>>

\* the user presses Generate Tickets: handleGenerate up to its await
Generate ==
    /\ ~generateDisabled
    /\ uLoading' = TRUE
    /\ uError' = JsNull
    /\ uPlan' = JsNull
    /\ uPlanFrom' = JsNull
    /\ uPlanFetches' = Append(uPlanFetches, [prd |-> uPrd, overtaken |-> FALSE])
    /\ UNCHANGED <<uPrd, uExtracting, uExtractions, uCopied, exceptPage>>

\* the fetch of /api/plan settles: the rest of handleGenerate
PlanFetched ==
    /\ \E k \in 1..Len(uPlanFetches) : \E res \in PlanFetchOutcomes :
          /\ uPlanFetches' = without(uPlanFetches, k)
          /\ IF res.rejected
             THEN uError' = JsString(res.message) /\ UNCHANGED <<uPlan, uPlanFrom>>
             ELSE IF ~res.ok
             THEN /\ uError' = JsString(orIfEmpty(res.message,
                                  orIfEmpty(res.error, <<"A", "P", "I", " ", "e", "r", "r", "o", "r", ":", " ">> \o res.statusText)))
                  /\ UNCHANGED <<uPlan, uPlanFrom>>
             ELSE /\ uPlan' = res.plan
                  /\ uPlanFrom' = uPlanFetches[k]
                  /\ UNCHANGED uError
    /\ uLoading' = FALSE
    /\ UNCHANGED <<uPrd, uExtracting, uExtractions, uCopied, exceptPage>>

\* the user presses a sample button: loadSample
LoadSample ==
    /\ ~sampleDisabled
    /\ \E sample \in {SAMPLE_PRD_1, SAMPLE_PRD_2} : uPrd' = sample
    /\ uPlan' = JsNull
    /\ uPlanFrom' = JsNull
    /\ uError' = JsNull
    /\ UNCHANGED <<uLoading, uExtracting, uPlanFetches, uExtractions, uCopied, exceptPage>>

\* the user presses Clear: handleClear
Clear ==
    /\ ~clearDisabled
    /\ uPrd' = <<>>
    /\ uPlan' = JsNull
    /\ uPlanFrom' = JsNull
    /\ uError' = JsNull
    /\ UNCHANGED <<uLoading, uExtracting, uPlanFetches, uExtractions, uCopied, exceptPage>>

\* the user presses Copy Markdown on the card of a ticket
CopyTicketMarkdown ==
    /\ uPlan # JsNull
    /\ \E i \in 1..Len(uPlan.tickets) :
          uCopied' = [ticket |-> uPlan.tickets[i], text |-> ticketToMarkdownCard(uPlan.tickets[i])]
    /\ UNCHANGED <<uPrd, uPlan, uError, uLoading, uExtracting, uPlanFetches, uExtractions,
                   uPlanFrom, exceptPage>>

PageInit ==
    /\ RequestIdle
    /\ RepairIdle
    /\ DecodeIdle
    /\ LinkIdle
    /\ CleanIdle
    /\ ExtractIdle
    /\ PageIdle

PageNext ==
    \/ EditPrd
    \/ UploadFile
    \/ FileTextRead
    \/ ExtractFetched
    \/ ExtractFails
    \/ Generate
    \/ PlanFetched
    \/ LoadSample
    \/ Clear
    \/ CopyTicketMarkdown

SpecPage == PageInit /\ [][PageNext]_vars
(***************************************************************************)
(* Properties of the page (checked under SpecPage).                        *)
(***************************************************************************)
\* C25: the text block of a ticket card always has the Dependencies, Out of
\* scope, QA test cases and Analytics headings, and the single item
\* "- None" under each of them whose list is empty: a ticket without
\* dependencies and without out-of-scope items shows "- None" under both.
C25_CardTextRendersNone ==
    uCopied # JsNull =>
        LET t == uCopied.ticket
            text == uCopied.text
        IN  /\ Contains(text, <<"\n", "\n", "D", "e", "p", "e", "n", "d", "e", "n", "c", "i", "e", "s", ":", "\n">>)
            /\ Contains(text, <<"\n", "\n", "O", "u", "t", " ", "o", "f", " ", "s", "c", "o", "p", "e", ":", "\n">>)
            /\ Contains(text, <<"\n", "\n", "Q", "A", " ", "t", "e", "s", "t", " ", "c", "a", "s", "e", "s", ":", "\n">>)
            /\ Contains(text, <<"\n", "\n", "A", "n", "a", "l", "y", "t", "i", "c", "s", ":", "\n">>)
            /\ t.dependencies = <<>> => Contains(text, <<"\n", "\n", "D", "e", "p", "e", "n", "d", "e", "n", "c", "i", "e", "s", ":", "\n", "-", " ", "N", "o", "n", "e", "\n", "\n">>)
            /\ t.outOfScope = <<>> => Contains(text, <<"\n", "\n", "O", "u", "t", " ", "o", "f", " ", "s", "c", "o", "p", "e", ":", "\n", "-", " ", "N", "o", "n", "e", "\n", "\n">>)
            /\ t.qa.testCases = <<>> => Contains(text, <<"\n", "\n", "Q", "A", " ", "t", "e", "s", "t", " ", "c", "a", "s", "e", "s", ":", "\n", "-", " ", "N", "o", "n", "e", "\n", "\n">>)
            /\ t.analytics.events = <<>> => EndsWith(text, <<"\n", "\n", "A", "n", "a", "l", "y", "t", "i", "c", "s", ":", "\n", "-", " ", "N", "o", "n", "e", "\n">>)
            /\ t.dependencies # <<>> =>
                   Contains(text, <<"\n", "\n", "D", "e", "p", "e", "n", "d", "e", "n", "c", "i", "e", "s", ":", "\n">> \o join(bulleted(t.dependencies), <<"\n">>) \o <<"\n", "\n">>)
            /\ t.outOfScope # <<>> =>
                   Contains(text, <<"\n", "\n", "O", "u", "t", " ", "o", "f", " ", "s", "c", "o", "p", "e", ":", "\n">> \o join(bulleted(t.outOfScope), <<"\n">>) \o <<"\n", "\n">>)

\* the text block of a ticket without dependencies and without out-of-scope
\* items, with one QA test case, has been copied
C25_Witness ==
    /\ uCopied # JsNull
    /\ uCopied.ticket.dependencies = <<>>
    /\ uCopied.ticket.outOfScope = <<>>
    /\ uCopied.ticket.qa.testCases # <<>>
    /\ Contains(uCopied.text, <<"D", "e", "p", "e", "n", "d", "e", "n", "c", "i", "e", "s", ":", "\n", "-", " ", "N", "o", "n", "e", "\n", "\n", "O", "u", "t", " ", "o", "f", " ", "s", "c", "o", "p", "e", ":", "\n", "-", " ", "N", "o", "n", "e", "\n", "\n", "Q", "A", " ", "t", "e", "s", "t", " ", "c", "a", "s", "e", "s", ":", "\n", "-", " ", "q", "\n">>)
(***************************************************************************)
(* When the plan endpoint retries (checked under Spec).                    *)
(***************************************************************************)
\* C26: the oracle is invoked a second time only after the first call
\* raised. A failure after a call returned (in the repair pass, the link
\* building, the Markdown rendering or the final validation) ends the
\* request in the failure response with no further invocation, and a
\* failure before the first call (body parsing, input validation) ends it
\* with no invocation at all.
C26_RetryOnlyAfterFirstCallRaised ==
    /\ \A i \in 1..Len(oracleLog) :
          /\ oracleLog[i].ev = "invoke" =>
                 i = 1 \/ (i = 3 /\ oracleLog[2].ev = "raise")
          /\ oracleLog[i].ev = "return" => i = Len(oracleLog) /\ pc = "done"
    /\ (pc = "done" /\ oracleLog # <<>> /\ oracleLog[Len(oracleLog)].ev = "return") =>
          response.status \in {200, 500}
    /\ (pc = "done" /\ (~body.readable \/ ~PlanRequestSchemaAccepts(body))) =>
          oracleLog = <<>> /\ response.status = 500

\* the first call returned an output, a later step failed, and the request
\* ended in the failure response after that single invocation
C26_Witness ==
    /\ pc = "done"
    /\ EventsOf(oracleLog) = <<"invoke", "return">>
    /\ response.status = 500
\* C27: plan and error are never both non-null, whatever the interleaving
\* of generating, uploading, loading a sample, clearing and editing; and the
\* step in which a generation request settles sets exactly one of them.
C27_PlanAndErrorExclusive ==
    [][/\ ~(uPlan' # JsNull /\ uError' # JsNull)
       /\ Len(uPlanFetches') < Len(uPlanFetches) =>
             \/ (uPlan' # JsNull /\ uError' = JsNull)
             \/ (uPlan' = JsNull /\ uError' # JsNull)]_vars

\* a plan is on display while a file is being extracted, and the PRD field
\* no longer holds the text the plan was generated from
C27_Witness ==
    /\ uPlan # JsNull
    /\ uError = JsNull
    /\ uExtracting
    /\ uPlanFrom.prd # uPrd
\* C28: at most one request to /api/plan and at most one file extraction
\* are pending at any time: while loading the generate, clear, sample and
\* upload controls are disabled, while extracting the upload control is
\* disabled, and each flag is true exactly as long as its request has not
\* settled, whether it then succeeds or fails.
C28_OneRequestInFlight ==
    /\ Len(uPlanFetches) <= 1
    /\ Len(uExtractions) <= 1
    /\ uLoading <=> uPlanFetches # <<>>
    /\ uExtracting <=> uExtractions # <<>>
    /\ uLoading => (generateDisabled /\ clearDisabled /\ sampleDisabled /\ uploadDisabled)
    /\ uExtracting => uploadDisabled
    /\ uLoading => ~(ENABLED Generate \/ ENABLED Clear \/ ENABLED LoadSample \/ ENABLED UploadFile)
    /\ uExtracting => ~ENABLED UploadFile

\* a plan request and a file extraction are pending together
C28_Witness ==
    /\ uLoading
    /\ uExtracting
    /\ Len(uPlanFetches) = 1
    /\ Len(uExtractions) = 1
\* C29: once a file upload has replaced the PRD text, the page never
\* displays a plan that was generated from the text that preceded the
\* upload.
C29_NoPlanFromReplacedText ==
    uPlan # JsNull => ~uPlanFrom.overtaken

\* C30: the "Create in Linear" link of every ticket card of a displayed
\* plan, looked up in exports.linear by the ticket's id, is the URL built
\* from that ticket's own title and body.
C30_CardLinkIsOwnTicketsUrl ==
    uPlan # JsNull =>
        \A i \in 1..Len(uPlan.tickets) :
            linearUrl(uPlan, uPlan.tickets[i]) =
                JsString(buildLinearNewUrl(uPlan.tickets[i].title,
                                           ticketMarkdownDescription(uPlan.tickets[i])))
====
